---- MODULE Spec2Model ----
(***************************************************************************)
(* Verification model of the driftal auth / LLM gateway service.          *)
(*                                                                         *)
(*   SpecPCE      the parameter constraint engine                          *)
(*                (services/model-config.ts, applyParameterConstraints)    *)
(*   SpecGateway  one HTTP request through POST /v1/chat/completions:      *)
(*                the route handler (routes/proxy.ts), the router and its  *)
(*                usage log (services/proxy.ts), the vendor behind it      *)
(*   SpecResponses  one vendor event stream through the Responses branch   *)
(*                of makeLLMStreamRequest and its stream transformer       *)
(*   SpecGatewayAbort  SpecGateway with a consumer that may stop early     *)
(*   SpecStreams  one vendor stream through the stream adapters of the     *)
(*                Anthropic, Gemini and OpenRouter services                *)
(*   SpecDispatch one call through the router of the unified LLM service   *)
(*                (services/llm.ts)                                        *)
(*   SpecErrors   one failed call of makeOpenAIRequest                     *)
(*                (services/openai.ts)                                     *)
(*   SpecRelayReads  the read loop of the OpenRouter stream adapter on a   *)
(*                response body delivered in reads of any size             *)
(*   SpecTranslate  one request through transformToResponsesAPI            *)
(*   SpecRateLimiter  concurrent requests of one identifier through the    *)
(*                rate limiter (routes/proxy.ts, rateLimiter)              *)
(*   SpecExchange  concurrent exchangeCodeForTokens calls with one         *)
(*                authorization code                                       *)
(*   SpecTimeout  one request whose handler races the request timeout      *)
(*                (middleware/error.ts)                                    *)
(*                                                                         *)
(* An optional JavaScript value (a field that may be undefined, a function *)
(* that may return null) is a set with at most one element: {} is          *)
(* undefined / null and {v} is the value v.                                *)
(***************************************************************************)
EXTENDS Integers, Sequences, FiniteSets, TLC

\* ------------------------------------------------------------------------
\* Bounds
\* ------------------------------------------------------------------------

\* parameter values, and the min / max / default of a constraint, are 0..MaxVal
MaxVal == 2

\* largest number of entries of a constraint's disallowed list
MaxDisallowed == 1

Vals == 0..MaxVal

Opt(S) == {{}} \cup {{v} : v \in S}

Some(o) == CHOOSE v \in o : TRUE

\* ------------------------------------------------------------------------
\* Parameter constraint engine: services/model-config.ts
\* ------------------------------------------------------------------------

Params == {"temperature", "top_p", "max_tokens"}

\* interface ParameterConstraint (the field `allowed` is never read)
ParameterConstraint ==
    [min : Opt(Vals), max : Opt(Vals), default : Opt(Vals),
     disallowed : {d \in SUBSET Vals : Cardinality(d) <= MaxDisallowed},
     remove : BOOLEAN]

\* the constrained fields of a ChatCompletionRequest
PceRequests == [Params -> Opt(Vals)]

\* ModelConfig.parameterConstraints: an optional constraint per parameter
ConstraintsOn(S, c) == [p \in Params |-> IF p \in S THEN {c} ELSE {}]

\* the entries of the table MODEL_CONFIGS as the source has them
RemoveOnly ==
    [min |-> {}, max |-> {}, default |-> {}, disallowed |-> {}, remove |-> TRUE]

MODEL_CONFIGS ==
    [m \in {"gpt-5-codex", "gpt-5-mini", "o4-mini", "o3"} |->
        IF m \in {"o4-mini", "o3"}
        THEN ConstraintsOn({"temperature"}, RemoveOnly)
        ELSE ConstraintsOn({}, RemoveOnly)]

\* getModelConfig: MODEL_CONFIGS[modelId] || null
getModelConfig(table, modelId) ==
    IF modelId \in DOMAIN table THEN {table[modelId]} ELSE {}

\* the min / max block of one parameter
ClampMinMax(v, c) ==
    IF v = {} THEN {}
    ELSE LET x == Some(v)
             a == IF c.min # {} /\ x < Some(c.min) THEN Some(c.min) ELSE x
             b == IF c.max # {} /\ a > Some(c.max) THEN Some(c.max) ELSE a
         IN  {b}

\* "Set default if undefined and default is specified"
DefaultIfUndefined(v, c) == IF v = {} /\ c.default # {} THEN c.default ELSE v

\* the temperature block: remove, disallowed, min / max, default
ApplyTemperature(v, c) ==
    IF c.remove
    THEN {}
    ELSE LET v1 == IF v # {} /\ Some(v) \in c.disallowed
                   THEN (IF c.default # {} THEN c.default ELSE {})
                   ELSE v
         IN  DefaultIfUndefined(ClampMinMax(v1, c), c)

\* the top_p and max_tokens blocks: min / max, default
ApplyTopP(v, c) == DefaultIfUndefined(ClampMinMax(v, c), c)

ApplyMaxTokens(v, c) == DefaultIfUndefined(ClampMinMax(v, c), c)

\* applyParameterConstraints(request, modelId), with the table entry of
\* modelId passed as config (an optional parameterConstraints record)
applyParameterConstraints(request, config) ==
    IF config = {}
    THEN request
    ELSE LET constraints == Some(config)
         IN  [p \in Params |->
                IF constraints[p] = {} THEN request[p]
                ELSE IF p = "temperature"
                     THEN ApplyTemperature(request[p], Some(constraints[p]))
                ELSE IF p = "top_p"
                     THEN ApplyTopP(request[p], Some(constraints[p]))
                ELSE ApplyMaxTokens(request[p], Some(constraints[p]))]

\* the request objects of one run of the engine: the object of the caller
\* and the objects the engine allocates; a cell is {} until it is allocated
PceObjects == {"request", "updated1", "updated2"}

\* an engine that adjusts the object it is given
UpdatedRequestOf_Alias(ref) == ref

\* const updatedRequest = { ...request }: a new object for every call
UpdatedRequestOf(ref) == IF ref = "request" THEN "updated1" ELSE "updated2"

\* applyParameterConstraints on the heap: without a configuration the
\* request object itself is returned; otherwise the fields are copied into
\* updatedRequest and every assignment and delete goes to updatedRequest
applyOnHeap(heap, ref, config) ==
    IF config = {}
    THEN [heap |-> heap, returned |-> ref]
    ELSE LET updatedRequest == UpdatedRequestOf(ref)
             copied == [heap EXCEPT ![updatedRequest] = heap[ref]]
         IN  [heap |-> [copied EXCEPT ![updatedRequest] =
                           {applyParameterConstraints(
                                Some(copied[updatedRequest]), config)}],
              returned |-> updatedRequest]

\* the configurations the engine is run on: every entry of MODEL_CONFIGS, a
\* model without entry, and one constraint on one parameter or on all three
PceConfigs ==
    {{}} \cup {{MODEL_CONFIGS[m]} : m \in DOMAIN MODEL_CONFIGS}
         \cup {{ConstraintsOn(S, c)} :
                 S \in {{p} : p \in Params} \cup {Params},
                 c \in ParameterConstraint}

\* ------------------------------------------------------------------------
\* JavaScript values of a request body
\* ------------------------------------------------------------------------

\* a value is tagged with its typeof; the field that holds it is named after
\* the type (num, str, bool, arr)
Undefined == [t |-> "undefined"]

Num(n) == [t |-> "number", num |-> n]

Str(s) == [t |-> "string", str |-> s]

Bool(b) == [t |-> "boolean", bool |-> b]

Arr(s) == [t |-> "array", arr |-> s]

\* !x of JavaScript
Falsy(x) ==
    \/ x.t = "undefined"
    \/ x.t = "number" /\ x.num = 0
    \/ x.t = "string" /\ x.str = ""
    \/ x.t = "boolean" /\ ~x.bool

\* ------------------------------------------------------------------------
\* Errors: types/index.ts
\* An error message is the sequence of the pieces of its template string;
\* <<>> is the empty string.
\* ------------------------------------------------------------------------

\* class ValidationError extends AppError: status 400
ValidationError(msg) ==
    [name |-> "ValidationError", message |-> msg, statusCode |-> 400]

\* class ProviderError extends AppError: status 502
ProviderError(msg) ==
    [name |-> "ProviderError", message |-> msg, statusCode |-> 502]

\* new Error(msg); normalizeError gives it status 500
PlainError(msg) == [name |-> "Error", message |-> msg, statusCode |-> 500]

\* ------------------------------------------------------------------------
\* Request validation: services/proxy.ts
\* ------------------------------------------------------------------------

\* the first message in the array that fails the per-message checks: the
\* error it raises, {} when every message passes
RECURSIVE ValidateMessages(_)
ValidateMessages(msgs) ==
    IF msgs = <<>> THEN {}
    ELSE LET message == Head(msgs)
         IN  IF \/ Falsy(message.role)
                \/ message.role.t # "string"
                \/ message.role.str \notin {"system", "user", "assistant"}
             THEN {ValidationError(
                     <<"Each message must have a role of system, user, or assistant">>)}
             ELSE IF message.content.t # "string"
             THEN {ValidationError(<<"Each message must have a content string">>)}
             ELSE ValidateMessages(Tail(msgs))

\* a validation that checks the messages only
validateChatCompletionRequest_MessagesOnly(request) ==
    IF Falsy(request.messages) \/ request.messages.t # "array"
    THEN {ValidationError(<<"messages field is required and must be an array">>)}
    ELSE IF Len(request.messages.arr) = 0
    THEN {ValidationError(<<"messages array cannot be empty">>)}
    ELSE ValidateMessages(request.messages.arr)

\* validateChatCompletionRequest: the ValidationError it throws, {} when it
\* returns
validateChatCompletionRequest(request) ==
    IF Falsy(request.messages) \/ request.messages.t # "array"
    THEN {ValidationError(<<"messages field is required and must be an array">>)}
    ELSE IF Len(request.messages.arr) = 0
    THEN {ValidationError(<<"messages array cannot be empty">>)}
    ELSE IF ValidateMessages(request.messages.arr) # {}
    THEN ValidateMessages(request.messages.arr)
    ELSE IF /\ request.temperature.t # "undefined"
            /\ \/ request.temperature.t # "number"
               \/ request.temperature.num < 0
               \/ request.temperature.num > 2
    THEN {ValidationError(<<"temperature must be a number between 0 and 2">>)}
    ELSE IF /\ request.max_tokens.t # "undefined"
            /\ \/ request.max_tokens.t # "number"
               \/ request.max_tokens.num < 1
    THEN {ValidationError(<<"max_tokens must be a positive number">>)}
    ELSE IF request.stream.t # "undefined" /\ request.stream.t # "boolean"
    THEN {ValidationError(<<"stream must be a boolean">>)}
    ELSE IF request.model.t # "undefined" /\ request.model.t # "string"
    THEN {ValidationError(<<"model must be a string">>)}
    ELSE {}

\* ------------------------------------------------------------------------
\* Model registry: types/index.ts
\* ------------------------------------------------------------------------

SUPPORTED_MODELS ==
    [m \in {"gpt-4-turbo", "gpt-4", "gpt-3.5-turbo"} |-> [provider |-> {"openai"}]]

\* SUPPORTED_MODELS is an object literal: a key of Object.prototype reads as
\* an inherited value, which is truthy and has no provider field
ObjectPrototypeKeys == {"constructor"}

\* ModelLookup without the membership test: every id reads as an entry
ModelLookup_AllKnown(model) == {[provider |-> {"openai"}]}

\* SUPPORTED_MODELS[model]: the entry, an inherited value, or undefined ({})
ModelLookup(model) ==
    IF model \in DOMAIN SUPPORTED_MODELS THEN {SUPPORTED_MODELS[model]}
    ELSE IF model \in ObjectPrototypeKeys THEN {[provider |-> {}]}
    ELSE {}

\* getProviderForModel: the provider of the entry, or the error it throws
getProviderForModel(model) ==
    IF ModelLookup(model) = {}
    THEN [throws |-> {ValidationError(<<"Unsupported model: ", model>>)},
          provider |-> {}]
    ELSE [throws |-> {}, provider |-> Some(ModelLookup(model)).provider]

\* the model getUserModel falls back to
DefaultModel == "claude-3-5-sonnet-20241022"

\* the outcomes of prisma.userProfile.findUnique: no row, a row, a failure
ProfileLookups(models) ==
    {[kind |-> "none"], [kind |-> "error"]}
        \cup {[kind |-> "profile", primaryModel |-> m] : m \in models}

\* getUserModel: the profile's primary model; the default when there is no
\* profile or the lookup fails
getUserModel(lookup) ==
    IF lookup.kind = "profile" THEN lookup.primaryModel ELSE DefaultModel

\* the model routeLLMRequest / routeLLMStreamRequest resolves
ResolveModel(request, lookup) ==
    IF ~Falsy(request.model) THEN request.model.str ELSE getUserModel(lookup)

\* ------------------------------------------------------------------------
\* The vendor and the OpenAI adapter: services/openai.ts
\* ------------------------------------------------------------------------

\* longest vendor stream, in chunks
MaxChunks == 2

\* longest messages array of a request body
MaxMsgs == 1

Usage(p, c) == [prompt_tokens |-> p, completion_tokens |-> c, total_tokens |-> p + c]

\* the usage objects a vendor reports
Usages == {Usage(0, 0), Usage(5, 2)}

\* ChatCompletionChunk: a content delta, or the chunk that carries the usage
\* (stream_options: include_usage)
ContentChunk(text) == [content |-> {text}, finish_reason |-> {}, usage |-> {}]

UsageChunk(u) == [content |-> {}, finish_reason |-> {"stop"}, usage |-> {u}]

GwChunks == {ContentChunk(t) : t \in {"H", "i"}} \cup {UsageChunk(u) : u \in Usages}

\* ChatCompletionResponse of a blocking call
GwResponses == {[content |-> "Hi", usage |-> u] : u \in Usages}

\* the messages of the errors the OpenAI SDK raises; <<>> is an empty message
VendorErrorMessages == {<<>>, <<"Rate limit reached">>}

\* a value of the body as the optional number the adapter reads
ToOpt(x) == IF x.t = "number" THEN {x.num} ELSE {}

\* the arguments of client.chat.completions.create: the constraints of the
\* model are applied first; temperature is passed when it is not undefined,
\* max_tokens when it is truthy
VendorPayload(request, model, streaming) ==
    LET constrainedRequest ==
            applyParameterConstraints(
                [temperature |-> ToOpt(request.temperature),
                 top_p |-> {},
                 max_tokens |-> ToOpt(request.max_tokens)],
                getModelConfig(MODEL_CONFIGS, model))
    IN  [model |-> model,
         temperature |-> constrainedRequest.temperature,
         max_tokens |-> constrainedRequest.max_tokens \ {0},
         stream |-> streaming]

\* the catch of makeOpenAIRequest: error.message || "OpenAI API request failed"
OpenAIRequestError(vendorMessage) ==
    ProviderError(IF vendorMessage = <<>>
                  THEN <<"OpenAI API request failed">>
                  ELSE vendorMessage)

\* the catch of makeOpenAIStreamRequest
OpenAIStreamError(vendorMessage) ==
    ProviderError(IF vendorMessage = <<>>
                  THEN <<"OpenAI streaming API request failed">>
                  ELSE vendorMessage)

\* ------------------------------------------------------------------------
\* The usage log: services/proxy.ts
\* ------------------------------------------------------------------------

\* usage?.field || null
TokensOrNull(usage, field) ==
    IF usage = {} \/ Some(usage)[field] = 0 THEN {} ELSE {Some(usage)[field]}

\* the row logUsage passes to prisma.usageLog.create
UsageLogData(ev) ==
    [model |-> ev.model,
     provider |-> ev.provider,
     promptTokens |-> TokensOrNull(ev.usage, "prompt_tokens"),
     completionTokens |-> TokensOrNull(ev.usage, "completion_tokens"),
     totalTokens |-> TokensOrNull(ev.usage, "total_tokens"),
     status |-> ev.status,
     errorMessage |-> ev.errorMessage \ {<<>>}]

\* logUsage without the try / catch: a failed write throws
logUsageThrows_Rethrow(dbFails) == dbFails

\* logUsage wraps the database write in try / catch and only logs a failure:
\* whether the call of logUsage throws when the write fails
logUsageThrows(dbFails) == FALSE

\* the error of a failed prisma write
DbError == PlainError(<<"Can't reach database server">>)

\* the arguments of the logUsage call on the success path of routeLLMRequest
\* (usage is response.usage) and of routeLLMStreamRequest (usage is null)
SuccessEvent(model, provider, usage) ==
    [model |-> model, provider |-> provider, usage |-> usage,
     status |-> "success", errorMessage |-> {}]

\* the catch block taking the fallback message for every error
RouterErrorMessage_Unknown(error) == <<"Unknown error">>

\* the errorMessage the catch blocks of the router pass to logUsage:
\* error instanceof Error ? error.message : 'Unknown error'
RouterErrorMessage(error) == error.message

\* the arguments of the logUsage call in the catch block of both routers:
\* request.model || 'unknown', 'unknown', null, 'error', error.message
ErrorEvent(request, error) ==
    [model |-> IF Falsy(request.model) THEN "unknown" ELSE request.model.str,
     provider |-> "unknown",
     usage |-> {},
     status |-> "error",
     errorMessage |-> {RouterErrorMessage(error)}]

\* ------------------------------------------------------------------------
\* The route handler: routes/proxy.ts
\* ------------------------------------------------------------------------

\* res.write(`data: ${JSON.stringify(chunk)}\n\n`)
DataFrame(chunk) == [kind |-> "chunk", chunk |-> chunk]

\* res.write("data: [DONE]\n\n")
DoneFrame == [kind |-> "done"]

\* res.write(`data: ${JSON.stringify({error: error.message})}\n\n`)
ErrorFrame(error) == [kind |-> "error", error |-> error.message]

\* errorHandler: res.status(appError.statusCode).json({error: message, ...})
ErrorBody(error) == [error |-> error.message]

\* the request bodies the handler is run on
GwMessages ==
    [role : {Str("user"), Str("tool"), Undefined},
     content : {Str("hi"), Num(1)}]

GwMessageLists ==
    UNION {[1..n -> GwMessages] : n \in 0..MaxMsgs}

GwModelIds ==
    DOMAIN SUPPORTED_MODELS \cup ObjectPrototypeKeys \cup {"unknown-id", DefaultModel}

GwBodies ==
    [messages : {Undefined, Str("hi")} \cup {Arr(l) : l \in GwMessageLists},
     temperature : {Undefined, Str("hot"), Num(-1), Num(1), Num(3)},
     max_tokens : {Undefined, Str("many"), Num(0), Num(1)},
     stream : {Undefined, Bool(TRUE), Bool(FALSE), Str("yes")},
     model : {Undefined, Num(4), Str("")} \cup {Str(m) : m \in GwModelIds}]

\* ------------------------------------------------------------------------
\* The reasoning / responses adapter: services/llm.ts
\* ------------------------------------------------------------------------

\* longest vendor event stream, in events
MaxEvents == 2

\* chunk.delta of an event that is an object: {text, content}
Obj(text, content) == [t |-> "object", text |-> text, content |-> content]

\* chunk.delta?.text and chunk.delta?.content: undefined unless delta is an
\* object that has the field
DeltaField(delta, field) ==
    IF delta.t = "object" /\ delta[field] # {} THEN Str(Some(delta[field]))
    ELSE Undefined

\* a || b
OrElse(a, b) == IF Falsy(a) THEN b ELSE a

\* x || undefined as an optional value: {} when x is falsy
Truthy(x) == IF Falsy(x) THEN {} ELSE {x}

ReasoningTypes ==
    {"response.reasoning.delta", "response.reasoning_summary.delta",
     "reasoning.delta", "reasoning", "response.thinking.delta", "thinking.delta"}

TextDeltaTypes ==
    {"response.output_text.delta", "content_block_delta", "message_delta"}

\* an event of the vendor's Responses stream
RsEv(type, event, delta, text, meta, response) ==
    [type |-> type, event |-> event, delta |-> delta, text |-> text,
     id |-> IF meta THEN {"resp_1"} ELSE {},
     created |-> IF meta THEN {7} ELSE {},
     response |-> response]

\* usage of the response object of a completed event
RsVendorUsages ==
    {[input_tokens |-> {5}, output_tokens |-> {2}, total_tokens |-> {7}],
     [input_tokens |-> {5}, output_tokens |-> {2}, total_tokens |-> {}]}

\* the events a vendor stream is made of: text deltas in the three shapes,
\* every reasoning type, the done shapes with and without usage, and events
\* the transformer does not know
RsEvents ==
    {RsEv("response.output_text.delta", {}, d, {}, m, {}) :
        d \in {Str("H"), Str("i"), Str(""), Undefined}, m \in BOOLEAN}
    \cup {RsEv("content_block_delta", {}, d, {}, FALSE, {}) :
        d \in {Obj({"H"}, {}), Obj({}, {"i"})}}
    \cup {RsEv("message_delta", {}, d, {}, FALSE, {}) :
        d \in {Obj({}, {"i"}), Str("H")}}
    \cup {RsEv(ty, {}, Str("thinking..."), {}, FALSE, {}) : ty \in ReasoningTypes}
    \cup {RsEv("response.reasoning.delta", {}, Undefined, tx, FALSE, {}) :
        tx \in {{}, {"thinking..."}}}
    \cup {RsEv(ty, {}, Undefined, {}, m, r) :
        ty \in {"response.done", "response.completed"}, m \in BOOLEAN,
        r \in {{}, {[usage |-> {}]}} \cup {{[usage |-> {u}]} : u \in RsVendorUsages}}
    \cup {RsEv("message", {"done"}, Undefined, {}, FALSE, r) :
        r \in {{}} \cup {{[usage |-> {u}]} : u \in RsVendorUsages}}
    \cup {RsEv(ty, {}, d, {}, FALSE, {}) :
        ty \in {"response.created", "response.output_item.added"},
        d \in {Undefined, Str("H")}}

\* chunk.type === "response.completed" || chunk.event === "done"
IsCompleted(chunk) == chunk.type = "response.completed" \/ chunk.event = {"done"}

\* field || 0
NumberOrZero(o) == IF o = {} THEN 0 ELSE Some(o)

\* the usage makeLLMStreamRequest extracts for the final chunk: null unless
\* the event is a completed event whose response carries usage
UsageToInclude(chunk, lastResponseObject) ==
    IF /\ IsCompleted(chunk)
       /\ lastResponseObject # {}
       /\ Some(lastResponseObject).response # {}
       /\ Some(Some(lastResponseObject).response).usage # {}
    THEN LET u == Some(Some(Some(lastResponseObject).response).usage)
         IN  {[prompt_tokens |-> NumberOrZero(u.input_tokens),
               completion_tokens |-> NumberOrZero(u.output_tokens),
               total_tokens |-> NumberOrZero(u.total_tokens)]}
    ELSE {}

\* the branch of transformResponsesStreamChunk an event takes
EventBranch(chunk) ==
    IF chunk.type = "response.output_text.delta" /\ ~Falsy(chunk.delta)
    THEN "text"
    ELSE IF chunk.type = "content_block_delta"
            /\ ~Falsy(DeltaField(chunk.delta, "text"))
    THEN "block"
    ELSE IF chunk.type = "message_delta"
            /\ ~Falsy(DeltaField(chunk.delta, "content"))
    THEN "message"
    ELSE IF chunk.type \in ReasoningTypes
    THEN "reasoning"
    ELSE IF chunk.type \in {"response.done", "response.completed"}
            \/ chunk.event = {"done"}
    THEN "done"
    ELSE "skip"

\* reasoning = chunk.delta || chunk.text || chunk.content || ""
ReasoningText(chunk) ==
    OrElse(chunk.delta,
           IF chunk.text # {} THEN Str(Some(chunk.text)) ELSE Str(""))

\* transformResponsesStreamChunk(chunk, modelId, usage) at time now: the
\* ChatCompletionChunk it returns, {} when it returns null
transformResponsesStreamChunk(chunk, modelId, usage, now) ==
    LET branch == EventBranch(chunk)
        content == IF branch = "text" THEN chunk.delta
                   ELSE IF branch = "block" THEN DeltaField(chunk.delta, "text")
                   ELSE IF branch = "message"
                        THEN DeltaField(chunk.delta, "content")
                   ELSE Str("")
        reasoning == IF branch = "reasoning" THEN ReasoningText(chunk)
                     ELSE Str("")
        finishReason == IF branch = "done" THEN {"stop"} ELSE {}
    IN  IF branch = "skip" THEN {}
        ELSE IF Falsy(content) /\ Falsy(reasoning) /\ finishReason = {}
                /\ usage = {}
        THEN {}
        ELSE {[id |-> IF chunk.id # {} THEN [vendor |-> Some(chunk.id)]
                      ELSE [chatcmpl |-> now],
               created |-> IF chunk.created # {} THEN Some(chunk.created)
                           ELSE now \div 1000,
               model |-> modelId,
               content |-> Truthy(content),
               reasoning |-> Truthy(reasoning),
               finish_reason |-> finishReason,
               usage |-> usage]}

\* the model of the stream
RsModelId == "gpt-5-codex"

\* the values Date.now() takes during a stream, in ms
RsTimes == {1000, 1999, 2000}

\* ------------------------------------------------------------------------
\* The stream adapters of the other vendors: Anthropic (message style),
\* Gemini (generate content) and OpenRouter (OpenAI-compatible relay).
\* A text is a sequence of characters; <<>> is the empty string.
\* ------------------------------------------------------------------------

StAdapters == {"anthropic", "gemini", "openrouter"}

\* the model the adapter is called with
StModel(adapter) ==
    IF adapter = "anthropic" THEN "claude-3-5-sonnet-20241022"
    ELSE IF adapter = "gemini" THEN "gemini-3-pro-preview"
    ELSE "anthropic/claude-sonnet-4.5"

\* the texts a vendor sends in one delta or part
StTexts == {<<"H">>, <<"i">>, <<>>}

\* Array.prototype.join(""): the texts of a list, concatenated
RECURSIVE Join(_)
Join(texts) ==
    IF texts = <<>> THEN <<>> ELSE Head(texts) \o Join(Tail(texts))

\* a ChatCompletionChunk as the three adapters build it
StChunk(id, created, model, role, content, finish_reason) ==
    [id |-> id, created |-> created, model |-> model, role |-> role,
     content |-> content, finish_reason |-> finish_reason, usage |-> {}]

\* messageId = `chatcmpl-${Date.now()}` and created = floor(Date.now() / 1000),
\* both read once, before the first event
StMessageId(start) == [chatcmpl |-> start]

StCreated(start) == start \div 1000

\* the events of client.messages.stream
AnthropicEvents ==
    {[type |-> "content_block_delta", stop_reason |-> {},
      delta |-> [type |-> "text_delta", text |-> t]] : t \in StTexts}
    \cup {[type |-> "content_block_delta", stop_reason |-> {},
           delta |-> [type |-> "input_json_delta", text |-> <<>>]],
          [type |-> "message_start", stop_reason |-> {},
           delta |-> [type |-> "none", text |-> <<>>]],
          [type |-> "message_stop", stop_reason |-> {},
           delta |-> [type |-> "none", text |-> <<>>]]}
    \cup {[type |-> "message_delta", stop_reason |-> {r},
           delta |-> [type |-> "none", text |-> <<>>]] :
            r \in {"end_turn", "max_tokens", "stop_sequence"}}

\* mapAnthropicStopReason, as the non-streaming translation applies it to
\* response.stop_reason
mapAnthropicStopReason(stopReason) ==
    IF stopReason \in {"end_turn", "stop_sequence"} THEN {"stop"}
    ELSE IF stopReason = "max_tokens" THEN {"length"}
    ELSE {}

\* the body of the for await loop of makeAnthropicStreamRequest: the chunks
\* one event yields
AnthropicChunks(event, model, start) ==
    IF event.type = "content_block_delta"
    THEN IF event.delta.type = "text_delta"
         THEN <<StChunk(StMessageId(start), StCreated(start), model, {},
                        {event.delta.text}, {})>>
         ELSE <<>>
    ELSE IF event.type = "message_stop"
    THEN <<StChunk(StMessageId(start), StCreated(start), model, {}, {}, {"stop"})>>
    ELSE <<>>

\* usage of stream.finalMessage()
AnthropicUsages == {[input_tokens |-> 5, output_tokens |-> 2]}

\* mapGeminiFinishReason
mapGeminiFinishReason(finishReason) ==
    IF finishReason = "STOP" THEN {"stop"}
    ELSE IF finishReason = "MAX_TOKENS" THEN {"length"}
    ELSE IF finishReason = "SAFETY" THEN {"content_filter"}
    ELSE {}

\* the items of client.models.generateContentStream: no candidate, or a
\* candidate with a list of text parts and an optional finishReason
GeminiParts == {<<>>, <<<<"H">>>>, <<<<>>>>, <<<<"H">>, <<"i">>>>}

GeminiFinishReasons ==
    {{}, {"FINISH_REASON_UNSPECIFIED"}, {"STOP"}, {"MAX_TOKENS"}, {"OTHER"}}

GeminiItems ==
    {[candidates |-> {}, usageMetadata |-> {}],
     [candidates |-> {}, usageMetadata |-> {[totalTokenCount |-> 7]}]}
    \cup {[candidates |-> {[parts |-> ps, finishReason |-> f]},
           usageMetadata |-> {}] : ps \in GeminiParts, f \in GeminiFinishReasons}

\* the body of the for await loop of makeGeminiStreamRequest: a content chunk
\* for a non-empty text of the first part, then a final chunk when the
\* candidate has a finishReason other than FINISH_REASON_UNSPECIFIED
GeminiChunks(item, model, start) ==
    IF item.candidates = {} THEN <<>>
    ELSE LET candidate == Some(item.candidates)
             text == IF candidate.parts = <<>> THEN <<>> ELSE candidate.parts[1]
             textChunk ==
                 IF text # <<>>
                 THEN <<StChunk(StMessageId(start), StCreated(start), model, {},
                                {text}, {})>>
                 ELSE <<>>
             finalChunk ==
                 IF /\ candidate.finishReason # {}
                    /\ candidate.finishReason # {"FINISH_REASON_UNSPECIFIED"}
                 THEN <<StChunk(StMessageId(start), StCreated(start), model, {}, {},
                                mapGeminiFinishReason(Some(candidate.finishReason)))>>
                 ELSE <<>>
         IN  textChunk \o finalChunk

\* transformFromGeminiFormat: the message content of a blocking response is
\* the texts of all parts of the candidate, joined
GeminiResponseContent(parts) == Join(parts)

\* a choice of a streamed payload of the relay
RelayChoice(content, finish_reason) ==
    [index |-> 0, role |-> {}, content |-> content, finish_reason |-> finish_reason]

\* a parsed `data: ` payload
RelayJson(meta, choices, usage) ==
    [kind |-> "json",
     id |-> IF meta THEN {"gen-1"} ELSE {},
     created |-> IF meta THEN {7} ELSE {},
     model |-> IF meta THEN {"anthropic/claude-4.5-sonnet-20250929"} ELSE {},
     choices |-> choices, usage |-> usage]

\* a line that is not `data: ...`, the [DONE] sentinel, or a payload that
\* JSON.parse rejects
RelayOther(kind) ==
    [kind |-> kind, id |-> {}, created |-> {}, model |-> {}, choices |-> {},
     usage |-> {}]

\* the finish_reason values a vendor behind the relay sends
RelayFinishReasons == {{}, {"stop"}, {"tool_calls"}}

\* the complete lines the relay adapter takes out of its buffer; choices is
\* {} when the payload has none, {<<>>} for an empty array
RelayLines ==
    {RelayJson(m, {<<RelayChoice(c, f)>>}, {}) :
        m \in BOOLEAN, c \in {{}, {<<"H">>}, {<<"i">>}}, f \in RelayFinishReasons}
    \cup {RelayJson(FALSE, ch, {Usage(5, 2)}) :
            ch \in {{}, {<<>>}, {<<RelayChoice({}, {"stop"})>>}}}
    \cup {RelayOther(k) : k \in {"comment", "done", "malformed"}}

\* the body of the line loop of makeOpenRouterStreamRequest: the chunks one
\* line yields
RelayChunks(line, model, start) ==
    IF line.kind # "json" THEN <<>>
    ELSE IF line.choices = {} \/ line.choices = {<<>>} THEN <<>>
    ELSE LET choice == Some(line.choices)[1]
         IN  <<StChunk(IF line.id # {} THEN [vendor |-> Some(line.id)]
                       ELSE StMessageId(start),
                       IF line.created # {} THEN Some(line.created)
                       ELSE StCreated(start),
                       IF line.model # {} THEN Some(line.model) ELSE model,
                       choice.role, choice.content, choice.finish_reason)>>

\* the events a vendor stream of an adapter is made of
StEvents(adapter) ==
    IF adapter = "anthropic" THEN AnthropicEvents
    ELSE IF adapter = "gemini" THEN GeminiItems
    ELSE RelayLines

\* the chunks an adapter yields for one event of its vendor stream
StChunksOf(adapter, event, start) ==
    IF adapter = "anthropic" THEN AnthropicChunks(event, StModel(adapter), start)
    ELSE IF adapter = "gemini" THEN GeminiChunks(event, StModel(adapter), start)
    ELSE RelayChunks(event, StModel(adapter), start)

\* the message of the ProviderError an adapter rethrows a stream failure as
StErrorMessage(adapter, vendorMessage) ==
    IF vendorMessage # <<>> THEN vendorMessage
    ELSE IF adapter = "anthropic"
    THEN <<"Anthropic streaming API request failed">>
    ELSE IF adapter = "gemini" THEN <<"Gemini streaming API request failed">>
    ELSE <<"OpenRouter streaming request failed">>

\* ------------------------------------------------------------------------
\* The reads of the relay adapter. The body of the vendor response is a
\* sequence of symbols: "\n" is the newline, every other symbol is a run of
\* characters without newline: the prefix `data: `, a JSON payload with one
\* choice whose content is H or i, a text JSON.parse rejects, the sentinel.
\* ------------------------------------------------------------------------

\* longest body of a vendor response, in symbols
MaxBody == 6

SseSymbols == {"data: ", "H", "i", "{", "[DONE]", "\n"}

\* buffer.split("\n"): the lines of a text, the text after the last newline
\* being the last one
RECURSIVE SplitNewline(_)
SplitNewline(text) ==
    IF text = <<>> THEN << <<>> >>
    ELSE LET rest == SplitNewline(Tail(text))
         IN  IF Head(text) = "\n" THEN << <<>> >> \o rest
             ELSE << <<Head(text)>> \o rest[1] >> \o Tail(rest)

\* one line of the line loop: line.startsWith("data: "), the sentinel test
\* and JSON.parse of what follows the prefix
ParseSseLine(line) ==
    IF line = <<>> \/ Head(line) # "data: " THEN RelayOther("comment")
    ELSE LET data == Tail(line)
         IN  IF data = <<"[DONE]">> THEN RelayOther("done")
             ELSE IF data \in {<<"H">>, <<"i">>}
             THEN RelayJson(FALSE, {<<RelayChoice({data}, {})>>}, {})
             ELSE RelayOther("malformed")

\* a line loop that gives up at the first payload JSON.parse rejects
RECURSIVE RelayLineLoop_StopAtMalformed(_)
RelayLineLoop_StopAtMalformed(lines) ==
    IF lines = <<>> THEN <<>>
    ELSE IF ParseSseLine(Head(lines)).kind = "malformed" THEN <<>>
    ELSE RelayChunks(ParseSseLine(Head(lines)), StModel("openrouter"), 1000)
             \o RelayLineLoop_StopAtMalformed(Tail(lines))

\* for (const line of lines): the chunks the lines yield, in order; the
\* catch around JSON.parse logs and goes on with the next line
RECURSIVE RelayLineLoop(_)
RelayLineLoop(lines) ==
    IF lines = <<>> THEN <<>>
    ELSE RelayChunks(ParseSseLine(Head(lines)), StModel("openrouter"), 1000)
             \o RelayLineLoop(Tail(lines))

\* ------------------------------------------------------------------------
\* The request translation of the reasoning / responses adapter. The
\* repository holds two versions of transformToResponsesAPI: the one of
\* part_002 (and part_011) and the older one of part_007.
\* ------------------------------------------------------------------------

\* longest messages array the translation is run on
MaxTurns == 2

TrVersions == {"part_002", "part_007"}

\* the validated requests the translation is run on
TrRequests ==
    [messages : UNION {[1..n -> [role : {"system", "user", "assistant"},
                                 content : {"a", "b", ""}]] : n \in 0..MaxTurns},
     temperature : Opt({1}),
     max_tokens : Opt({0, 1})]

IsSystem(m) == m.role = "system"

NotSystem(m) == m.role # "system"

\* a message content as a text: a sequence of characters, <<>> for ""
TextOf(content) == IF content = "" THEN <<>> ELSE <<content>>

\* Array.prototype.join("\n")
RECURSIVE JoinNewline(_)
JoinNewline(texts) ==
    IF texts = <<>> THEN <<>>
    ELSE IF Len(texts) = 1 THEN texts[1]
    ELSE texts[1] \o <<"\n">> \o JoinNewline(Tail(texts))

\* a system content taken from the first system message only
SystemContent_FirstOnly(messages) ==
    LET systemMessages == SelectSeq(messages, IsSystem)
    IN  IF systemMessages = <<>> THEN <<>>
        ELSE TextOf(systemMessages[1].content)

\* systemMessages = messages.filter(role === "system");
\* systemContent = systemMessages.map(content).join("\n")
SystemContent(messages) ==
    LET systemMessages == SelectSeq(messages, IsSystem)
    IN  JoinNewline([i \in 1..Len(systemMessages) |->
                        TextOf(systemMessages[i].content)])

\* transformToAnthropicFormat: the system field is left out when
\* systemContent is the empty string; max_tokens || 4096
transformToAnthropicFormat(request, model) ==
    LET others == SelectSeq(request.messages, NotSystem)
    IN  [model |-> model,
         max_tokens |-> IF request.max_tokens \ {0} = {} THEN {4096}
                        ELSE request.max_tokens,
         messages |-> [i \in 1..Len(others) |->
                          [role |-> others[i].role,
                           text |-> others[i].content]],
         system |-> IF SystemContent(request.messages) = <<>> THEN {}
                    ELSE {SystemContent(request.messages)},
         temperature |-> request.temperature]

\* transformToGeminiFormat: assistant becomes model, every other role user;
\* systemInstruction is left out when systemContent is the empty string
transformToGeminiFormat(request, model) ==
    LET others == SelectSeq(request.messages, NotSystem)
    IN  [model |-> model,
         max_tokens |-> request.max_tokens \ {0},
         messages |-> [i \in 1..Len(others) |->
                          [role |-> IF others[i].role = "assistant"
                                    THEN "model" ELSE "user",
                           text |-> others[i].content]],
         system |-> IF SystemContent(request.messages) = <<>> THEN {}
                    ELSE {SystemContent(request.messages)},
         temperature |-> request.temperature]

\* longest output list of a vendor response
MaxOutput == 2

\* the entries of response.output: a reasoning entry, or a message entry
\* whose content holds an output_text with a text (text = {t}) or holds none
TrOutputs ==
    UNION {[1..n -> {[type |-> "reasoning", text |-> {}]}
                    \cup {[type |-> "message", text |-> t] : t \in Opt({"H", "i"})}] :
           n \in 0..MaxOutput}

IsMessageEntry(item) == item.type = "message"

\* transformFromResponsesAPI, the message content it returns for a response
\* without an output_text field. part_002: the output_text of the first
\* entry of type message, "" when that entry has none; part_007:
\* response.output?.[0]?.content || "", which is the content array of the
\* entry
transformFromResponsesAPI(output, version) ==
    IF version = "part_007"
    THEN IF output # <<>> /\ output[1].type = "message"
         THEN [t |-> "array"] ELSE Str("")
    ELSE LET messages == SelectSeq(output, IsMessageEntry)
         IN  IF messages = <<>> \/ messages[1].text = {} THEN Str("")
             ELSE Str(Some(messages[1].text))

\* transformToResponsesAPI: one input entry per message; part_007 passes the
\* temperature and writes the reasoning hint as type, part_002 as effort
transformToResponsesAPI(request, version) ==
    [input |->
        [i \in 1..Len(request.messages) |->
            [type |-> "message",
             role |-> IF request.messages[i].role = "system" THEN "user"
                      ELSE request.messages[i].role,
             content |-> request.messages[i].content]],
     temperature |-> IF version = "part_007" THEN request.temperature ELSE {},
     max_output_tokens |-> request.max_tokens \ {0},
     reasoning |-> IF version = "part_007"
                   THEN [effort |-> {}, type |-> {"medium"}]
                   ELSE [effort |-> {"medium"}, type |-> {}]]

\* ------------------------------------------------------------------------
\* The unified LLM service: the router that sends every model through
\* makeLLMRequest / makeLLMStreamRequest, and the registry it reads
\* ------------------------------------------------------------------------

\* SUPPORTED_MODELS of the registry with the reasoning models: id -> provider
SUPPORTED_MODELS_LLM ==
    [m \in {"gpt-5.1", "gpt-5.1-codex", "gpt-5-codex", "o4-mini",
            "gpt-5.1-codex-mini", "o3", "gemini-3-pro-preview",
            "anthropic/claude-sonnet-4.5"} |->
        IF m = "gemini-3-pro-preview" THEN "gemini"
        ELSE IF m = "anthropic/claude-sonnet-4.5" THEN "openrouter"
        ELSE "openai"]

\* getUserModel of this router: a fixed model
getUserModelLLM == "gpt-5.1"

\* getClientAndModel: the SDK client of the provider
ClientOf(provider) == IF provider = "openai" THEN "openai" ELSE "openrouter"

\* the arguments of client.chat.completions.create in makeLLMRequest and
\* makeLLMStreamRequest: the parameters of the request, passed through
LLMPayload(request, model, streaming) ==
    [client |-> ClientOf(SUPPORTED_MODELS_LLM[model]),
     model |-> model,
     temperature |-> request.temperature,
     max_tokens |-> request.max_tokens \ {0},
     top_p |-> request.top_p,
     stream |-> streaming]

\* the validated requests the router is called with
DpRequests ==
    [model : Opt(DOMAIN SUPPORTED_MODELS_LLM \cup {"unknown-id"}),
     temperature : Opt(Vals),
     max_tokens : Opt({1}),
     top_p : Opt({1}),
     stream : BOOLEAN]

\* ------------------------------------------------------------------------
\* The failures of the OpenAI adapter (services/openai.ts). An error object
\* is a record of the fields the catch blocks read; an absent field is {}.
\* ------------------------------------------------------------------------

\* getEndpointType: config?.endpoint || "chat/completions"
getEndpointType(modelId) ==
    IF modelId \in {"gpt-5-codex", "gpt-5-mini"} THEN "responses"
    ELSE "chat/completions"

ErModels == {"gpt-5-codex", "gpt-5-mini", "o3", "gpt-4"}

\* the status line of a vendor response that is not ok
StatusTexts ==
    [s \in {400, 401, 429, 503} |->
        IF s = 400 THEN "Bad Request"
        ELSE IF s = 401 THEN "Unauthorized"
        ELSE IF s = 429 THEN "Too Many Requests"
        ELSE "Service Unavailable"]

\* the body of a vendor response that is not ok: {"error": {"message": text}},
\* {"error": text}, {} or a text that is not JSON; <<>> is the empty string
ErBodies ==
    [form : {"errorObject", "errorString", "text"},
     text : VendorErrorMessages]
    \cup {[form |-> "noError", text |-> <<>>]}

\* a vendor failure: a response with a status that is not 2xx, or no
\* response at all
ErFailures ==
    {[kind |-> "http", status |-> s, body |-> b] :
        s \in DOMAIN StatusTexts, b \in ErBodies}
    \cup {[kind |-> "transport", status |-> 0,
           body |-> [form |-> "noError", text |-> <<>>]]}

\* the message the vendor gave with the failure, <<>> if it gave none
VendorMessage(failure) == failure.body.text

\* new Error(message), new TypeError(message): no status, code or type
JsError(name, message) ==
    [name |-> name, message |-> message, status |-> {}, statusCode |-> {},
     code |-> {}, type |-> {}, details |-> {}]

\* the error the OpenAI SDK rejects client.chat.completions.create with:
\* status is the status of the response, undefined when there was none
SdkError(failure) ==
    IF failure.kind = "http"
    THEN [name |-> "APIError", message |-> VendorMessage(failure),
          status |-> {failure.status}, statusCode |-> {}, code |-> {},
          type |-> {}, details |-> {}]
    ELSE [name |-> "APIConnectionError", message |-> <<"Connection error.">>,
          status |-> {}, statusCode |-> {}, code |-> {}, type |-> {},
          details |-> {}]

\* new ProviderError(message, provider, details): AppError with status 502,
\* code PROVIDER_ERROR and details { provider, ...details }
ProviderErrorOf(message, provider, details) ==
    [name |-> "ProviderError", message |-> message, status |-> {},
     statusCode |-> {502}, code |-> {"PROVIDER_ERROR"}, type |-> {},
     details |-> {[provider |-> provider, statusCode |-> details.statusCode,
                   code |-> details.code, type |-> details.type]}]

\* the message of the Error makeOpenAIResponsesRequest throws for a response
\* that is not ok: errorJson.error?.message || errorJson.error ||
\* errorMessage when the body parses, errorText || errorMessage when not
ResponsesErrorMessage(failure) ==
    LET errorMessage ==
            <<"OpenAI API request failed: ", StatusTexts[failure.status]>>
        body == failure.body
    IN  IF body.form = "errorObject"
        THEN IF body.text # <<>> THEN body.text ELSE <<"[object Object]">>
        ELSE IF body.form = "noError" THEN errorMessage
        ELSE IF body.text # <<>> THEN body.text ELSE errorMessage

\* the catch of makeOpenAIResponsesRequest
ResponsesCatch(error) ==
    ProviderErrorOf(
        IF error.message # <<>> THEN error.message
        ELSE <<"OpenAI responses API request failed">>,
        "openai",
        [statusCode |-> IF error.status # {} THEN error.status
                        ELSE IF error.statusCode # {} THEN error.statusCode
                        ELSE {500},
         code |-> error.code, type |-> error.type])

\* the catch of makeOpenAIRequest
RequestCatch(error) ==
    ProviderErrorOf(
        IF error.message # <<>> THEN error.message
        ELSE <<"OpenAI API request failed">>,
        "openai",
        [statusCode |-> error.status, code |-> error.code,
         type |-> error.type])


VARIABLES
    pceConfig,      \* getModelConfig(modelId) of the model of the call
    pceRequest,     \* the request passed to applyParameterConstraints
    pceDerived,     \* the request it returned
    pceAgain,       \* the result of applying it to pceDerived
    pceHeap,        \* the request objects: the fields each one has now
    pceReturned,    \* the object the last call returned, "none" before
    pcePc           \* "off", "idle", "applied", "reapplied"

VARIABLES
    gwPc,           \* where the request is: "off", "idle", "routing",
                    \* "dispatch", "streaming", "logSuccess", "logError",
                    \* "returned", "raised", "done", "aborted"
    gwReq,          \* req.body
    gwModel,        \* the model the router resolved, {} before
    gwProvider,     \* the provider the router resolved, {} before
    gwVendorCalls,  \* the vendor requests dispatched, in order
    gwResponse,     \* the response of the vendor to a blocking call, {} if none
    gwVendorUsage,  \* the usage the vendor reported for the call, {} if none
    gwYielded,      \* the chunks the router has yielded, in order
    gwFailure,      \* the error the routed call failed with, {} if none
    gwCaught,       \* the error in the hands of the router's catch block
    gwReported,     \* the calls of logUsage: the outcome events, in order
    gwUsageLog,     \* the rows of the usage_logs table
    gwSinkFailed,   \* a write to usage_logs has failed
    gwResult,       \* what the router gave its caller: return or throw
    httpHeadersSent,\* res.headersSent
    httpStatus,     \* the status code sent, {} before
    httpBody,       \* the JSON body sent, {} if none
    httpFrames,     \* the SSE frames written, in order
    httpEnded       \* the response is finished

VARIABLES
    rsPc,           \* the responses stream: "off", "streaming", "done", "failed"
    rsCount,        \* eventCount: the vendor events processed
    rsLast,         \* lastResponseObject, {} while null
    rsTotalTokens,  \* totalTokens
    rsOut,          \* the chunks yielded, each with the event it came from
    rsNow,          \* Date.now()
    rsError         \* the ProviderError the generator threw, {} if none

VARIABLES
    stAdapter,      \* the adapter the stream is made by, "none" when off
    stPc,           \* "off", "streaming", "done", "failed", "aborted"
    stStart,        \* Date.now() when messageId and created were taken
    stIn,           \* the vendor events the adapter has taken, in order
    stOut,          \* the chunks the adapter has yielded, in order
    stTotalTokens,  \* totalTokens, as passed to logLLMRequest
    stVendorOpen,   \* the vendor stream (connection) is open
    stLockHeld,     \* the relay holds the reader of response.body
    stError         \* the ProviderError the generator threw, {} if none

pceVars ==
    <<pceConfig, pceRequest, pceDerived, pceAgain, pceHeap, pceReturned, pcePc>>

rsVars == <<rsPc, rsCount, rsLast, rsTotalTokens, rsOut, rsNow, rsError>>

gwRouterVars ==
    <<gwModel, gwProvider, gwVendorCalls, gwResponse, gwVendorUsage, gwYielded,
      gwFailure, gwCaught, gwReported, gwUsageLog, gwSinkFailed, gwResult>>

httpVars == <<httpHeadersSent, httpStatus, httpBody, httpFrames, httpEnded>>

gwVars == <<gwPc, gwReq, gwRouterVars, httpVars>>

VARIABLES
    dpPc,           \* "off", "idle", "dispatch", "called", "rejected"
    dpReq,          \* the request the router is called with
    dpModel,        \* the model the router resolved, {} before
    dpCalls,        \* the vendor calls made, in order
    dpError         \* the error the router threw, {} if none

dpVars == <<dpPc, dpReq, dpModel, dpCalls, dpError>>

VARIABLES
    erPc,           \* "off", "idle", "innerThrown", "outerThrown", "raised"
    erModel,        \* the model makeOpenAIRequest is called with
    erFailure,      \* the failure the vendor answers the call with
    erError         \* the error in flight, {} if none

erVars == <<erPc, erModel, erFailure, erError>>

VARIABLES
    rdPc,           \* "off", "reading", "done", "failed"
    rdBody,         \* the symbols the vendor has sent, in order
    rdBuffer,       \* buffer: the text after the last newline read
    rdOut,          \* the chunks the generator has yielded, in order
    rdError         \* the ProviderError the generator threw, {} if none

rdVars == <<rdPc, rdBody, rdBuffer, rdOut, rdError>>

VARIABLES
    trPc,           \* "off", "idle", "translated", "anthropic", "gemini",
                    \* "returned"
    trVersion,      \* the version of transformToResponsesAPI that is run
    trRequest,      \* the request it is given
    trOut,          \* the responses request it returns, {} before
    trResponse,     \* response.output of the vendor, <<>> before
    trContent       \* choices[0].message.content of the result, {} before

trVars == <<trPc, trVersion, trRequest, trOut, trResponse, trContent>>

stVars ==
    <<stAdapter, stPc, stStart, stIn, stOut, stTotalTokens, stVendorOpen,
      stLockHeld, stError>>

\* the rate limiter: the options of the limiter, the counter key in Redis,
\* each request's position and the values it read, the requests let
\* through since the counter key last expired
VARIABLES
    rlMax, rlSkipSuccessful, rlSkipFailed, rlStore, rlPc, rlCount,
    rlNewCount, rlAdmitted

rlVars ==
    <<rlMax, rlSkipSuccessful, rlSkipFailed, rlStore, rlPc, rlCount,
      rlNewCount, rlAdmitted>>

\* the exchange of one authorization code: the code key and the session
\* key in Redis, each exchangeCodeForTokens call's position
VARIABLES axCode, axSession, axPc

axVars == <<axCode, axSession, axPc>>

\* the request timeout: the timer of requestTimeout, the handler's
\* position, the error passed to next, the response object (headersSent,
\* a pending 'finish' event), the statuses the code passed to
\* res.status().json(), and the statuses that went out to the client
VARIABLES
    toEnv, toTimer, toPc, toError, toHeadersSent, toFinishPending,
    toWrites, toSent

toVars ==
    <<toEnv, toTimer, toPc, toError, toHeadersSent, toFinishPending,
      toWrites, toSent>>

vars ==
    <<pceVars, gwVars, rsVars, stVars, dpVars, erVars, rdVars, trVars,
      rlVars,
      axVars,
      toVars>>

\* the variables a component leaves alone
notPce ==
    <<gwVars, rsVars, stVars, dpVars, erVars, rdVars, trVars,
      rlVars,
      axVars,
      toVars>>

notGw ==
    <<pceVars, rsVars, stVars, dpVars, erVars, rdVars, trVars,
      rlVars,
      axVars,
      toVars>>

notRs ==
    <<pceVars, gwVars, stVars, dpVars, erVars, rdVars, trVars,
      rlVars,
      axVars,
      toVars>>

notSt ==
    <<pceVars, gwVars, rsVars, dpVars, erVars, rdVars, trVars,
      rlVars,
      axVars,
      toVars>>

notDp ==
    <<pceVars, gwVars, rsVars, stVars, erVars, rdVars, trVars,
      rlVars,
      axVars,
      toVars>>

notEr ==
    <<pceVars, gwVars, rsVars, stVars, dpVars, rdVars, trVars,
      rlVars,
      axVars,
      toVars>>

notRd ==
    <<pceVars, gwVars, rsVars, stVars, dpVars, erVars, trVars,
      rlVars,
      axVars,
      toVars>>

notTr == <<pceVars, gwVars, rsVars, stVars, dpVars, erVars, rdVars,
      rlVars,
      axVars,
      toVars>>

notTo ==
    <<pceVars, gwVars, rsVars, stVars, dpVars, erVars, rdVars, trVars, rlVars, axVars>>

notAx ==
    <<pceVars, gwVars, rsVars, stVars, dpVars, erVars, rdVars, trVars, rlVars,
      toVars>>

notRl ==
    <<pceVars, gwVars, rsVars, stVars, dpVars, erVars, rdVars, trVars,
      axVars,
      toVars>>

NoRequest == [p \in Params |-> {}]

NoBody ==
    [messages |-> Undefined, temperature |-> Undefined, max_tokens |-> Undefined,
     stream |-> Undefined, model |-> Undefined]

\* the constraint engine is not running
PceOff ==
    /\ pceConfig = {}
    /\ pceRequest = NoRequest
    /\ pceDerived = NoRequest
    /\ pceAgain = NoRequest
    /\ pceHeap = [o \in PceObjects |-> {}]
    /\ pceReturned = "none"
    /\ pcePc = "off"

\* no request is being handled
GwOff(pc) ==
    /\ gwPc = pc
    /\ gwReq = NoBody
    /\ gwModel = {}
    /\ gwProvider = {}
    /\ gwVendorCalls = <<>>
    /\ gwResponse = {}
    /\ gwVendorUsage = {}
    /\ gwYielded = <<>>
    /\ gwFailure = {}
    /\ gwCaught = {}
    /\ gwReported = <<>>
    /\ gwUsageLog = <<>>
    /\ gwSinkFailed = FALSE
    /\ gwResult = {}
    /\ httpHeadersSent = FALSE
    /\ httpStatus = {}
    /\ httpBody = {}
    /\ httpFrames = <<>>
    /\ httpEnded = FALSE

\* no responses stream is open
RsOff(pc) ==
    /\ rsPc = pc
    /\ rsCount = 0
    /\ rsLast = {}
    /\ rsTotalTokens = 0
    /\ rsOut = <<>>
    /\ rsNow = 1000
    /\ rsError = {}

NoDpRequest ==
    [model |-> {}, temperature |-> {}, max_tokens |-> {}, top_p |-> {},
     stream |-> FALSE]

\* transformToResponsesAPI is not called
\* no request reaches the rate limiter
RlOff ==
    /\ rlMax = 0
    /\ rlSkipSuccessful = FALSE
    /\ rlSkipFailed = FALSE
    /\ rlStore = {}
    /\ rlPc = <<>>
    /\ rlCount = <<>>
    /\ rlNewCount = <<>>
    /\ rlAdmitted = 0


TrQuiet ==
    /\ trPc = "off"
    /\ trVersion = "none"
    /\ trRequest = [messages |-> <<>>, temperature |-> {}, max_tokens |-> {}]
    /\ trOut = {}
    /\ trResponse = <<>>
    /\ trContent = {}

\* nothing is translated, no request reaches the rate limiter
\* no authorization code is exchanged
AxOff ==
    /\ axCode = FALSE
    /\ axSession = FALSE
    /\ axPc = <<>>


\* no request runs under the request timeout
ToOff ==
    /\ toEnv = "off"
    /\ toTimer = "off"
    /\ toPc = "off"
    /\ toError = {}
    /\ toHeadersSent = FALSE
    /\ toFinishPending = FALSE
    /\ toWrites = <<>>
    /\ toSent = <<>>


TrOff == ToOff /\ AxOff /\ TrQuiet /\ RlOff

\* the relay adapter reads no response
RdQuiet ==
    /\ rdPc = "off"
    /\ rdBody = <<>>
    /\ rdBuffer = <<>>
    /\ rdOut = <<>>
    /\ rdError = {}

\* the relay adapter reads no response, nothing is translated
RdOff == RdQuiet /\ TrOff

\* the OpenAI adapter is not called
ErOff ==
    /\ erPc = "off"
    /\ erModel = "none"
    /\ erFailure = [kind |-> "none", status |-> 0,
                    body |-> [form |-> "noError", text |-> <<>>]]
    /\ erError = {}

\* the unified LLM service is not called
DpOff ==
    /\ dpPc = "off"
    /\ dpReq = NoDpRequest
    /\ dpModel = {}
    /\ dpCalls = <<>>
    /\ dpError = {}

\* no adapter stream is open
StOff ==
    /\ stAdapter = "none"
    /\ stPc = "off"
    /\ stStart = 1000
    /\ stIn = <<>>
    /\ stOut = <<>>
    /\ stTotalTokens = 0
    /\ stVendorOpen = FALSE
    /\ stLockHeld = FALSE
    /\ stError = {}

\* ------------------------------------------------------------------------
\* SpecPCE: the constraint engine applied to a request, and applied again
\* ------------------------------------------------------------------------

PceInit ==
    /\ pceConfig \in PceConfigs
    /\ pceRequest = NoRequest
    /\ pceDerived = NoRequest
    /\ pceAgain = NoRequest
    /\ pceHeap = [o \in PceObjects |-> {}]
    /\ pceReturned = "none"
    /\ pcePc = "idle"
    /\ GwOff("off")
    /\ RsOff("off")
    /\ StOff
    /\ DpOff
    /\ ErOff
    /\ RdOff

\* a caller applies the constraints of the model to a request
PceApply ==
    /\ pcePc = "idle"
    /\ \E r \in PceRequests :
         LET called == applyOnHeap([pceHeap EXCEPT !["request"] = {r}],
                                  "request", pceConfig)
         IN  /\ pceRequest' = r
             /\ pceDerived' = applyParameterConstraints(r, pceConfig)
             /\ pceHeap' = called.heap
             /\ pceReturned' = called.returned
    /\ pcePc' = "applied"
    /\ UNCHANGED <<pceConfig, pceAgain, notPce>>

\* the derived request is passed through the engine a second time
PceReapply ==
    /\ pcePc = "applied"
    /\ pceAgain' = applyParameterConstraints(pceDerived, pceConfig)
    /\ LET called == applyOnHeap(pceHeap, pceReturned, pceConfig)
       IN  /\ pceHeap' = called.heap
           /\ pceReturned' = called.returned
    /\ pcePc' = "reapplied"
    /\ UNCHANGED <<pceConfig, pceRequest, pceDerived, notPce>>

PceNext == PceApply \/ PceReapply

SpecPCE == PceInit /\ [][PceNext]_vars

\* ------------------------------------------------------------------------
\* SpecGateway: one request through POST /v1/chat/completions
\* ------------------------------------------------------------------------

\* chatRequest.stream === true
IsStreaming(request) == request.stream = Bool(TRUE)

\* the streaming branch of the handler writes one frame per chunk it is given
WriteChunk(frames, chunk) == Append(frames, DataFrame(chunk))

\* the end of the streaming branch: the done signal
WriteDone(frames) == Append(frames, DoneFrame)

\* the done signal written on the error path too (as from a finally block)
WriteError_ThenDone(frames, error) ==
    Append(Append(frames, ErrorFrame(error)), DoneFrame)

\* the catch of the streaming branch: the error as an SSE frame
WriteError(frames, error) == Append(frames, ErrorFrame(error))

\* the blocking router passing null as the streaming router does
RouterSuccessUsage_Null(streaming, response) == {}

\* the usage the router passes to logUsage on success: response.usage of a
\* blocking call, null of a streaming call
RouterSuccessUsage(streaming, response) ==
    IF streaming THEN {} ELSE {Some(response).usage}

GwInit ==
    PceOff /\ GwOff("idle") /\ RsOff("off") /\ StOff /\ DpOff /\ ErOff
    /\ RdOff

\* the handler receives a body: validateChatCompletionRequest throws into
\* asyncHandler and errorHandler, or the handler goes on; for stream === true
\* it sets the SSE headers and flushes them before the router is started
HandlerReceive ==
    /\ gwPc = "idle"
    /\ \E body \in GwBodies :
         LET invalid == validateChatCompletionRequest(body)
         IN  /\ gwReq' = body
             /\ IF invalid # {}
                THEN /\ httpHeadersSent' = TRUE
                     /\ httpStatus' = {Some(invalid).statusCode}
                     /\ httpBody' = {ErrorBody(Some(invalid))}
                     /\ httpEnded' = TRUE
                     /\ gwPc' = "done"
                ELSE /\ httpHeadersSent' = IsStreaming(body)
                     /\ httpStatus' = IF IsStreaming(body) THEN {200} ELSE {}
                     /\ httpBody' = {}
                     /\ httpEnded' = FALSE
                     /\ gwPc' = "routing"
    /\ UNCHANGED <<gwRouterVars, httpFrames, notGw>>

\* routeLLMRequest / routeLLMStreamRequest up to the dispatch: the model is
\* request.model or getUserModel, it must be in SUPPORTED_MODELS, and its
\* provider must be one the router knows
RouterResolve ==
    /\ gwPc = "routing"
    /\ \E lookup \in ProfileLookups(GwModelIds) :
         LET model == ResolveModel(gwReq, lookup)
             found == getProviderForModel(model)
             error == IF found.throws # {} THEN found.throws
                      ELSE IF found.provider # {"openai"}
                      THEN {PlainError(<<"Unsupported provider: ", "undefined">>)}
                      ELSE {}
         IN  /\ gwModel' = {model}
             /\ gwProvider' = found.provider
             /\ gwFailure' = error
             /\ gwCaught' = error
             /\ gwPc' = IF error = {} THEN "dispatch" ELSE "logError"
    /\ UNCHANGED <<gwReq, gwVendorCalls, gwResponse, gwVendorUsage, gwYielded,
                   gwReported, gwUsageLog, gwSinkFailed, gwResult,
                   httpVars, notGw>>

\* a dispatch that repeats the vendor call
Dispatch_Twice(calls, payload) == calls \o <<payload, payload>>

\* the adapter awaits client.chat.completions.create once: there is no loop
\* around the call and the catch block only rethrows
Dispatch(calls, payload) == Append(calls, payload)

\* makeOpenAIRequest: one chat.completions.create call, which returns a
\* response or fails; the failure is rethrown as a ProviderError
AdapterRequest ==
    /\ gwPc = "dispatch"
    /\ ~IsStreaming(gwReq)
    /\ gwVendorCalls' =
           Dispatch(gwVendorCalls, VendorPayload(gwReq, Some(gwModel), FALSE))
    /\ \/ \E r \in GwResponses :
            /\ gwResponse' = {r}
            /\ gwVendorUsage' = {r.usage}
            /\ gwPc' = "logSuccess"
            /\ UNCHANGED <<gwFailure, gwCaught>>
       \/ \E m \in VendorErrorMessages :
            /\ gwFailure' = {OpenAIRequestError(m)}
            /\ gwCaught' = {OpenAIRequestError(m)}
            /\ gwPc' = "logError"
            /\ UNCHANGED <<gwResponse, gwVendorUsage>>
    /\ UNCHANGED <<gwReq, gwModel, gwProvider, gwYielded, gwReported,
                   gwUsageLog, gwSinkFailed, gwResult, httpVars, notGw>>

\* makeOpenAIStreamRequest: one chat.completions.create call with
\* stream: true, which opens the vendor stream or fails
AdapterStreamOpen ==
    /\ gwPc = "dispatch"
    /\ IsStreaming(gwReq)
    /\ gwVendorCalls' =
           Dispatch(gwVendorCalls, VendorPayload(gwReq, Some(gwModel), TRUE))
    /\ \/ /\ gwPc' = "streaming"
          /\ UNCHANGED <<gwFailure, gwCaught>>
       \/ \E m \in VendorErrorMessages :
            /\ gwFailure' = {OpenAIStreamError(m)}
            /\ gwCaught' = {OpenAIStreamError(m)}
            /\ gwPc' = "logError"
    /\ UNCHANGED <<gwReq, gwModel, gwProvider, gwResponse, gwVendorUsage,
                   gwYielded, gwReported, gwUsageLog, gwSinkFailed, gwResult,
                   httpVars, notGw>>

\* the vendor delivers a chunk: the adapter yields it, the router yields it
\* (yield*), and the for await loop of the handler writes it
StreamChunk ==
    /\ gwPc = "streaming"
    /\ Len(gwYielded) < MaxChunks
    /\ \E chunk \in GwChunks :
         /\ gwYielded' = Append(gwYielded, chunk)
         /\ gwVendorUsage' = IF chunk.usage # {} THEN chunk.usage ELSE gwVendorUsage
         /\ httpFrames' = WriteChunk(httpFrames, chunk)
    /\ UNCHANGED <<gwPc, gwReq, gwModel, gwProvider, gwVendorCalls, gwResponse,
                   gwFailure, gwCaught, gwReported, gwUsageLog, gwSinkFailed,
                   gwResult, httpHeadersSent, httpStatus, httpBody, httpEnded,
                   notGw>>

\* the vendor stream ends: the adapter returns and the router goes on to log
StreamEnd ==
    /\ gwPc = "streaming"
    /\ gwPc' = "logSuccess"
    /\ UNCHANGED <<gwReq, gwRouterVars, httpVars, notGw>>

\* the vendor stream fails: the adapter rethrows it as a ProviderError
StreamFail ==
    /\ gwPc = "streaming"
    /\ \E m \in VendorErrorMessages :
         /\ gwFailure' = {OpenAIStreamError(m)}
         /\ gwCaught' = {OpenAIStreamError(m)}
    /\ gwPc' = "logError"
    /\ UNCHANGED <<gwReq, gwModel, gwProvider, gwVendorCalls, gwResponse,
                   gwVendorUsage, gwYielded, gwReported, gwUsageLog,
                   gwSinkFailed, gwResult, httpVars, notGw>>

\* the success path of the router after the dispatch: logUsage is awaited,
\* then the response is returned (the generator completes); an exception of
\* logUsage would land in the catch block of the router
RouterLogSuccess ==
    /\ gwPc = "logSuccess"
    /\ \E dbFails \in BOOLEAN :
         LET ev == SuccessEvent(Some(gwModel), Some(gwProvider),
                       RouterSuccessUsage(IsStreaming(gwReq), gwResponse))
         IN  /\ gwReported' = Append(gwReported, ev)
             /\ gwUsageLog' = IF dbFails THEN gwUsageLog
                              ELSE Append(gwUsageLog, UsageLogData(ev))
             /\ gwSinkFailed' = (gwSinkFailed \/ dbFails)
             /\ IF logUsageThrows(dbFails)
                THEN /\ gwCaught' = {DbError}
                     /\ gwPc' = "logError"
                     /\ gwResult' = gwResult
                ELSE /\ gwCaught' = gwCaught
                     /\ gwPc' = "returned"
                     /\ gwResult' = {[kind |-> "return", response |-> gwResponse]}
    /\ UNCHANGED <<gwReq, gwModel, gwProvider, gwVendorCalls, gwResponse,
                   gwVendorUsage, gwYielded, gwFailure, httpVars, notGw>>

\* the catch block of the router: logUsage is awaited with status error,
\* then the caught error is thrown again
RouterLogError ==
    /\ gwPc = "logError"
    /\ \E dbFails \in BOOLEAN :
         LET ev == ErrorEvent(gwReq, Some(gwCaught))
         IN  /\ gwReported' = Append(gwReported, ev)
             /\ gwUsageLog' = IF dbFails THEN gwUsageLog
                              ELSE Append(gwUsageLog, UsageLogData(ev))
             /\ gwSinkFailed' = (gwSinkFailed \/ dbFails)
             /\ gwResult' =
                    {[kind |-> "throw",
                      error |-> IF logUsageThrows(dbFails) THEN DbError
                                ELSE Some(gwCaught)]}
    /\ gwPc' = "raised"
    /\ UNCHANGED <<gwReq, gwModel, gwProvider, gwVendorCalls, gwResponse,
                   gwVendorUsage, gwYielded, gwFailure, gwCaught,
                   httpVars, notGw>>

\* the router returned: res.json(response) of the blocking branch, the done
\* frame and res.end() of the streaming branch
HandlerRespond ==
    /\ gwPc = "returned"
    /\ IF IsStreaming(gwReq)
       THEN /\ httpFrames' = WriteDone(httpFrames)
            /\ UNCHANGED <<httpHeadersSent, httpStatus, httpBody>>
       ELSE /\ httpHeadersSent' = TRUE
            /\ httpStatus' = {200}
            /\ httpBody' = Some(gwResult).response
            /\ UNCHANGED httpFrames
    /\ httpEnded' = TRUE
    /\ gwPc' = "done"
    /\ UNCHANGED <<gwReq, gwRouterVars, notGw>>

\* the router threw: the catch of the streaming branch writes the error as
\* one frame and ends; in the blocking branch asyncHandler passes the error
\* to errorHandler, which sends it with its status code
HandlerCatch ==
    /\ gwPc = "raised"
    /\ IF IsStreaming(gwReq)
       THEN /\ httpFrames' = WriteError(httpFrames, Some(gwResult).error)
            /\ UNCHANGED <<httpHeadersSent, httpStatus, httpBody>>
       ELSE /\ httpHeadersSent' = TRUE
            /\ httpStatus' = {Some(gwResult).error.statusCode}
            /\ httpBody' = {ErrorBody(Some(gwResult).error)}
            /\ UNCHANGED httpFrames
    /\ httpEnded' = TRUE
    /\ gwPc' = "done"
    /\ UNCHANGED <<gwReq, gwRouterVars, notGw>>

GwNext ==
    \/ HandlerReceive
    \/ RouterResolve
    \/ AdapterRequest
    \/ AdapterStreamOpen
    \/ StreamChunk
    \/ StreamEnd
    \/ StreamFail
    \/ RouterLogSuccess
    \/ RouterLogError
    \/ HandlerRespond
    \/ HandlerCatch

SpecGateway == GwInit /\ [][GwNext]_vars

\* the consumer of routeLLMStreamRequest stops at a chunk and returns the
\* generator (a break or an exception in the body of its for await loop):
\* the router is suspended in yield*, so only finally blocks run; neither
\* the code after yield* nor the catch block is entered
ConsumerAbort ==
    /\ gwPc = "streaming"
    /\ gwYielded # <<>>
    /\ gwPc' = "aborted"
    /\ UNCHANGED <<gwReq, gwRouterVars, httpVars, notGw>>

GwAbortNext == GwNext \/ ConsumerAbort

\* SpecGatewayAbort: the gateway with a consumer that may stop early
SpecGatewayAbort == GwInit /\ [][GwAbortNext]_vars

\* ------------------------------------------------------------------------
\* SpecResponses: makeLLMStreamRequest on a model of the responses API
\* ------------------------------------------------------------------------

RsInit ==
    PceOff /\ GwOff("off") /\ RsOff("streaming") /\ StOff /\ DpOff /\ ErOff
    /\ RdOff

\* one turn of the for await loop: the vendor delivers an event, the loop
\* records a completed event, extracts its usage, transforms the event and
\* yields the chunk unless the transformer returned null
RsEvent ==
    /\ rsPc = "streaming"
    /\ rsCount < MaxEvents
    /\ \E chunk \in RsEvents, now \in {t \in RsTimes : t >= rsNow} :
         LET last == IF IsCompleted(chunk) THEN {chunk} ELSE rsLast
             usageToInclude == UsageToInclude(chunk, last)
             transformedChunk ==
                 transformResponsesStreamChunk(chunk, RsModelId,
                                               usageToInclude, now)
         IN  /\ rsLast' = last
             /\ rsTotalTokens' = IF usageToInclude # {}
                                 THEN Some(usageToInclude).total_tokens
                                 ELSE rsTotalTokens
             /\ rsOut' = IF transformedChunk # {}
                         THEN Append(rsOut, [src |-> chunk,
                                             chunk |-> Some(transformedChunk)])
                         ELSE rsOut
             /\ rsNow' = now
    /\ rsCount' = rsCount + 1
    /\ UNCHANGED <<rsPc, rsError, notRs>>

\* the vendor stream ends: the loop is left and the generator returns
RsEnd ==
    /\ rsPc = "streaming"
    /\ rsPc' = "done"
    /\ UNCHANGED <<rsCount, rsLast, rsTotalTokens, rsOut, rsNow, rsError, notRs>>

\* the vendor stream fails: the catch rethrows the error as a ProviderError
\* with error.message || "LLM streaming API request failed"
RsFail ==
    /\ rsPc = "streaming"
    /\ \E m \in VendorErrorMessages :
         rsError' = {ProviderError(IF m = <<>>
                                   THEN <<"LLM streaming API request failed">>
                                   ELSE m)}
    /\ rsPc' = "failed"
    /\ UNCHANGED <<rsCount, rsLast, rsTotalTokens, rsOut, rsNow, notRs>>

RsNext == RsEvent \/ RsEnd \/ RsFail

SpecResponses == RsInit /\ [][RsNext]_vars

\* ------------------------------------------------------------------------
\* SpecStreams: one vendor stream through makeAnthropicStreamRequest,
\* makeGeminiStreamRequest or makeOpenRouterStreamRequest, with a consumer
\* that drains the generator or returns it early
\* ------------------------------------------------------------------------

\* the vendor stream is open, messageId and created are taken, the relay has
\* its reader
StInit ==
    /\ PceOff /\ GwOff("off") /\ RsOff("off") /\ DpOff /\ ErOff
    /\ RdOff
    /\ stAdapter \in StAdapters
    /\ stPc = "streaming"
    /\ stStart \in RsTimes
    /\ stIn = <<>>
    /\ stOut = <<>>
    /\ stTotalTokens = 0
    /\ stVendorOpen = TRUE
    /\ stLockHeld = (stAdapter = "openrouter")
    /\ stError = {}

\* the adapter takes the event and yields its chunks to the consumer
StTake(event) ==
    /\ stPc = "streaming"
    /\ Len(stIn) < MaxEvents
    /\ stIn' = Append(stIn, event)
    /\ stOut' = stOut \o StChunksOf(stAdapter, event, stStart)
    /\ UNCHANGED <<stAdapter, stPc, stStart, stVendorOpen, stLockHeld, stError,
                   notSt>>

\* one turn of the for await loop of makeAnthropicStreamRequest
AnthropicEvent ==
    /\ stAdapter = "anthropic"
    /\ \E event \in AnthropicEvents : StTake(event)
    /\ UNCHANGED stTotalTokens

\* one turn of the for await loop of makeGeminiStreamRequest; usageMetadata
\* of the item is tracked
GeminiItem ==
    /\ stAdapter = "gemini"
    /\ \E item \in GeminiItems :
         /\ StTake(item)
         /\ stTotalTokens' = IF item.usageMetadata # {}
                             THEN Some(item.usageMetadata).totalTokenCount
                             ELSE stTotalTokens

\* one line of the line loop of makeOpenRouterStreamRequest; usage of the
\* payload is tracked and not passed on
RelayLine ==
    /\ stAdapter = "openrouter"
    /\ \E line \in RelayLines :
         /\ StTake(line)
         /\ stTotalTokens' = IF line.usage # {}
                             THEN Some(line.usage).total_tokens
                             ELSE stTotalTokens

\* the vendor stream ends: the loop is left, the relay releases its reader,
\* the Anthropic adapter reads the usage of stream.finalMessage(), and the
\* generator returns
StEnd ==
    /\ stPc = "streaming"
    /\ stPc' = "done"
    /\ stVendorOpen' = FALSE
    /\ stLockHeld' = FALSE
    /\ \E u \in AnthropicUsages :
         stTotalTokens' = IF stAdapter = "anthropic"
                          THEN u.input_tokens + u.output_tokens
                          ELSE stTotalTokens
    /\ UNCHANGED <<stAdapter, stStart, stIn, stOut, stError, notSt>>

\* the vendor stream fails: the relay releases its reader in finally, and
\* the catch rethrows the error as a ProviderError
StFail ==
    /\ stPc = "streaming"
    /\ \E m \in VendorErrorMessages :
         stError' = {ProviderError(StErrorMessage(stAdapter, m))}
    /\ stPc' = "failed"
    /\ stVendorOpen' = FALSE
    /\ stLockHeld' = FALSE
    /\ UNCHANGED <<stAdapter, stStart, stIn, stOut, stTotalTokens, notSt>>

\* the consumer stops at a chunk and returns the generator, which is
\* suspended at the yield of that chunk: only finally blocks run. A for await
\* loop returns the iterator of the SDK stream, which closes it; the relay
\* reads response.body through a reader in a while loop, and its finally
\* calls reader.releaseLock(), which gives up the reader and leaves the body
\* uncancelled
StAbort ==
    /\ stPc = "streaming"
    /\ stIn # <<>>
    /\ StChunksOf(stAdapter, stIn[Len(stIn)], stStart) # <<>>
    /\ stPc' = "aborted"
    /\ stVendorOpen' = (stAdapter = "openrouter")
    /\ stLockHeld' = FALSE
    /\ UNCHANGED <<stAdapter, stStart, stIn, stOut, stTotalTokens, stError,
                   notSt>>

StNext ==
    \/ AnthropicEvent
    \/ GeminiItem
    \/ RelayLine
    \/ StEnd
    \/ StFail
    \/ StAbort

SpecStreams == StInit /\ [][StNext]_vars

\* ------------------------------------------------------------------------
\* SpecDispatch: one call of the router of the unified LLM service, from
\* the request to the vendor call
\* ------------------------------------------------------------------------

DpInit ==
    /\ PceOff /\ GwOff("off") /\ RsOff("off") /\ StOff /\ ErOff /\ RdOff
    /\ dpPc = "idle"
    /\ dpReq \in DpRequests
    /\ dpModel = {}
    /\ dpCalls = <<>>
    /\ dpError = {}

\* routeLLMRequest / routeLLMStreamRequest up to the dispatch: the model is
\* request.model or the fixed default, and it must be in SUPPORTED_MODELS
DpResolve ==
    /\ dpPc = "idle"
    /\ LET model == IF dpReq.model # {} THEN Some(dpReq.model)
                    ELSE getUserModelLLM
       IN  /\ dpModel' = {model}
           /\ IF model \in DOMAIN SUPPORTED_MODELS_LLM
              THEN dpPc' = "dispatch" /\ dpError' = {}
              ELSE /\ dpPc' = "rejected"
                   /\ dpError' = {ValidationError(<<"Unsupported model: ", model>>)}
    /\ UNCHANGED <<dpReq, dpCalls, notDp>>

\* makeLLMRequest: the blocking vendor call
DpRequest ==
    /\ dpPc = "dispatch"
    /\ ~dpReq.stream
    /\ dpCalls' = Append(dpCalls, LLMPayload(dpReq, Some(dpModel), FALSE))
    /\ dpPc' = "called"
    /\ UNCHANGED <<dpReq, dpModel, dpError, notDp>>

\* makeLLMStreamRequest: the streaming vendor call
DpStreamRequest ==
    /\ dpPc = "dispatch"
    /\ dpReq.stream
    /\ dpCalls' = Append(dpCalls, LLMPayload(dpReq, Some(dpModel), TRUE))
    /\ dpPc' = "called"
    /\ UNCHANGED <<dpReq, dpModel, dpError, notDp>>

DpNext == DpResolve \/ DpRequest \/ DpStreamRequest

SpecDispatch == DpInit /\ [][DpNext]_vars

\* ------------------------------------------------------------------------
\* SpecErrors: one call of makeOpenAIRequest that the vendor fails
\* ------------------------------------------------------------------------

ErInit ==
    /\ PceOff /\ GwOff("off") /\ RsOff("off") /\ StOff /\ DpOff /\ RdOff
    /\ erPc = "idle"
    /\ erModel \in ErModels
    /\ erFailure \in ErFailures
    /\ erError = {}

\* makeOpenAIResponsesRequest: the response of fetch is not ok, the function
\* throws new Error(errorMessage) inside its own try
ResponsesNotOk ==
    /\ erPc = "idle"
    /\ getEndpointType(erModel) = "responses"
    /\ erFailure.kind = "http"
    /\ erError' = {JsError("Error", ResponsesErrorMessage(erFailure))}
    /\ erPc' = "innerThrown"
    /\ UNCHANGED <<erModel, erFailure, notEr>>

\* makeOpenAIResponsesRequest: fetch rejects, there is no response
ResponsesFetchFails ==
    /\ erPc = "idle"
    /\ getEndpointType(erModel) = "responses"
    /\ erFailure.kind = "transport"
    /\ erError' = {JsError("TypeError", <<"fetch failed">>)}
    /\ erPc' = "innerThrown"
    /\ UNCHANGED <<erModel, erFailure, notEr>>

\* the catch of makeOpenAIResponsesRequest rethrows a ProviderError into the
\* try of makeOpenAIRequest, which awaits the call
ResponsesRethrow ==
    /\ erPc = "innerThrown"
    /\ erError' = {ResponsesCatch(Some(erError))}
    /\ erPc' = "outerThrown"
    /\ UNCHANGED <<erModel, erFailure, notEr>>

\* makeOpenAIRequest: client.chat.completions.create rejects
ChatCompletionsFails ==
    /\ erPc = "idle"
    /\ getEndpointType(erModel) = "chat/completions"
    /\ erError' = {SdkError(erFailure)}
    /\ erPc' = "outerThrown"
    /\ UNCHANGED <<erModel, erFailure, notEr>>

\* the catch of makeOpenAIRequest throws the error the caller sees
RequestRethrow ==
    /\ erPc = "outerThrown"
    /\ erError' = {RequestCatch(Some(erError))}
    /\ erPc' = "raised"
    /\ UNCHANGED <<erModel, erFailure, notEr>>

ErNext ==
    \/ ResponsesNotOk
    \/ ResponsesFetchFails
    \/ ResponsesRethrow
    \/ ChatCompletionsFails
    \/ RequestRethrow

SpecErrors == ErInit /\ [][ErNext]_vars

\* ------------------------------------------------------------------------
\* SpecRelayReads: the read loop of makeOpenRouterStreamRequest on one
\* response body, delivered in reads of any size
\* ------------------------------------------------------------------------

RdInit ==
    /\ PceOff /\ GwOff("off") /\ RsOff("off") /\ StOff /\ DpOff /\ ErOff
    /\ TrOff
    /\ rdPc = "reading"
    /\ rdBody = <<>>
    /\ rdBuffer = <<>>
    /\ rdOut = <<>>
    /\ rdError = {}

\* reader.read() resolves with a value: it is appended to the buffer, the
\* buffer is split on newlines, the text after the last newline stays in
\* the buffer and every line before it goes through the line loop
RelayRead ==
    /\ rdPc = "reading"
    /\ \E n \in 1..(MaxBody - Len(rdBody)) :
         \E value \in [1..n -> SseSymbols] :
            LET lines == SplitNewline(rdBuffer \o value)
            IN  /\ rdBody' = rdBody \o value
                /\ rdBuffer' = lines[Len(lines)]
                /\ rdOut' = rdOut \o RelayLineLoop(SubSeq(lines, 1, Len(lines) - 1))
    /\ UNCHANGED <<rdPc, rdError, notRd>>

\* reader.read() resolves with done: the loop breaks, the lock is released
\* and the generator returns; what is left in the buffer is not looked at
RelayReadDone ==
    /\ rdPc = "reading"
    /\ rdPc' = "done"
    /\ UNCHANGED <<rdBody, rdBuffer, rdOut, rdError, notRd>>

\* reader.read() rejects: the outer catch rethrows it as a ProviderError
RelayReadFails ==
    /\ rdPc = "reading"
    /\ \E m \in VendorErrorMessages :
         rdError' = {ProviderError(StErrorMessage("openrouter", m))}
    /\ rdPc' = "failed"
    /\ UNCHANGED <<rdBody, rdBuffer, rdOut, notRd>>

RdNext == RelayRead \/ RelayReadDone \/ RelayReadFails

SpecRelayReads == RdInit /\ [][RdNext]_vars

\* ------------------------------------------------------------------------
\* SpecTranslate: one request through transformToResponsesAPI
\* ------------------------------------------------------------------------

TrInit ==
    /\ ToOff
    /\ AxOff
    /\ RlOff
    /\ PceOff /\ GwOff("off") /\ RsOff("off") /\ StOff /\ DpOff /\ ErOff
    /\ rdPc = "off" /\ rdBody = <<>> /\ rdBuffer = <<>> /\ rdOut = <<>>
    /\ rdError = {}
    /\ trPc = "idle"
    /\ trVersion \in TrVersions
    /\ trRequest \in TrRequests
    /\ trOut = {}
    /\ trResponse = <<>>
    /\ trContent = {}

\* makeLLMRequest / makeLLMStreamRequest build the responses request
Translate ==
    /\ trPc = "idle"
    /\ trOut' = {transformToResponsesAPI(trRequest, trVersion)}
    /\ trPc' = "translated"
    /\ UNCHANGED <<trVersion, trRequest, trResponse, trContent, notTr>>

\* makeAnthropicRequest / makeAnthropicStreamRequest build the vendor request
TranslateAnthropic ==
    /\ trPc = "idle"
    /\ trOut' = {transformToAnthropicFormat(trRequest, "claude-3-5-sonnet-20241022")}
    /\ trPc' = "anthropic"
    /\ UNCHANGED <<trVersion, trRequest, trResponse, trContent, notTr>>

\* makeGeminiRequest / makeGeminiStreamRequest build the vendor request
TranslateGemini ==
    /\ trPc = "idle"
    /\ trOut' = {transformToGeminiFormat(trRequest, "gemini-3-pro-preview")}
    /\ trPc' = "gemini"
    /\ UNCHANGED <<trVersion, trRequest, trResponse, trContent, notTr>>

\* makeLLMRequest: the vendor answers the responses request and the raw
\* response is translated
TranslateResponse ==
    /\ trPc = "translated"
    /\ \E output \in TrOutputs :
         /\ trResponse' = output
         /\ trContent' = {transformFromResponsesAPI(output, trVersion)}
    /\ trPc' = "returned"
    /\ UNCHANGED <<trVersion, trRequest, trOut, notTr>>

TrNext ==
    Translate \/ TranslateAnthropic \/ TranslateGemini \/ TranslateResponse

SpecTranslate == TrInit /\ [][TrNext]_vars

\* ------------------------------------------------------------------------
\* Properties of the constraint engine (SpecPCE)
\* ------------------------------------------------------------------------

\* C1: applying applyParameterConstraints twice equals applying it once, for
\* every request, every model and every constraint:
\* apply(apply(r, m), m) = apply(r, m).
C1_Idempotent == pcePc = "reapplied" => pceAgain = pceDerived

\* C2: a parameter (temperature, top_p, max_tokens) whose constraint has
\* remove = true is undefined in the derived request, whatever value the
\* caller supplied.
C2_RemoveAbsent ==
    (pcePc \in {"applied", "reapplied"} /\ pceConfig # {}) =>
        \A p \in Params :
            LET k == Some(pceConfig)[p]
            IN  (k # {} /\ Some(k).remove) => pceDerived[p] = {}

\* ------------------------------------------------------------------------
\* Properties of the gateway (SpecGateway)
\* ------------------------------------------------------------------------

\* the last call of logUsage
LastReported == gwReported[Len(gwReported)]

\* the router has given its caller a result of this kind
RouterGave(kind) == gwResult # {} /\ Some(gwResult).kind = kind

\* C3: a request whose model id is not in the registry is rejected by the
\* router, blocking or streaming, before any adapter is invoked: no vendor
\* call is ever made for it.
C3_UnknownModelNoVendorCall ==
    (gwModel # {} /\ Some(gwModel) \notin DOMAIN SUPPORTED_MODELS) =>
        /\ gwVendorCalls = <<>>
        /\ gwFailure # {}
        /\ gwPc \in {"logError", "raised", "done"}

C3_Witness ==
    /\ gwPc = "done"
    /\ IsStreaming(gwReq)
    /\ gwModel = {"unknown-id"}
    /\ RouterGave("throw")
    /\ gwVendorCalls = <<>>

\* C4: for a request with stream = true, a validation error or a
\* model-resolution error (unknown model id) is raised before the event
\* stream is opened and never reaches the caller as an SSE error frame: the
\* response is the error status with no frame.
C4_EarlyErrorsNotSse ==
    (/\ gwPc = "done"
     /\ IsStreaming(gwReq)
     /\ \/ validateChatCompletionRequest(gwReq) # {}
        \/ gwFailure # {} /\ Some(gwFailure).name = "ValidationError") =>
        /\ httpFrames = <<>>
        /\ httpStatus = {400}

\* C5: a streaming response is one data frame per chunk the router yielded,
\* in the same order, then exactly one terminator: the done frame when the
\* stream completed, one error frame and no done frame when it failed;
\* nothing is written after the terminator.
C5_SseFraming ==
    LET n == Len(gwYielded)
        last == httpFrames[Len(httpFrames)]
    IN  /\ Len(httpFrames) \in {n, n + 1}
        /\ \A i \in 1..n : httpFrames[i] = DataFrame(gwYielded[i])
        /\ (Len(httpFrames) = n + 1) =>
              /\ IsStreaming(gwReq)
              /\ httpEnded
              /\ \/ last = DoneFrame /\ RouterGave("return")
                 \/ /\ RouterGave("throw")
                    /\ last = ErrorFrame(Some(gwResult).error)
        /\ (httpEnded /\ IsStreaming(gwReq) /\ gwResult # {}) =>
              Len(httpFrames) = n + 1

C5_Witness ==
    /\ httpEnded
    /\ Len(gwYielded) >= 2
    /\ gwYielded[1] # gwYielded[2]
    /\ httpFrames[Len(httpFrames)].kind = "error"

\* C6: every call of routeLLMRequest and every fully consumed call of
\* routeLLMStreamRequest reports exactly one outcome event (one call of
\* logUsage), whether it completes or fails: never zero, never two.
C6_OneOutcomeEvent ==
    /\ Len(gwReported) <= 1
    /\ gwResult # {} => Len(gwReported) = 1

C6_Witness ==
    /\ gwPc = "done"
    /\ RouterGave("return")
    /\ gwSinkFailed
    /\ Len(gwReported) = 1

\* C7: when a routed call fails, the router reports an outcome event with
\* status error whose errorMessage is the message of the failure, and then
\* raises that same error; the event is reported before the caller sees the
\* error.
C7_ErrorReportedThenRaised ==
    RouterGave("throw") =>
        /\ gwFailure # {}
        /\ Some(gwResult).error = Some(gwFailure)
        /\ Len(gwReported) >= 1
        /\ LastReported.status = "error"
        /\ LastReported.errorMessage = {Some(gwFailure).message}

C7_Witness ==
    /\ gwPc = "raised"
    /\ RouterGave("throw")
    /\ Some(gwFailure).name = "ProviderError"
    /\ Len(gwYielded) >= 1

\* C8 as stated: when a routed call succeeds, blocking or streaming, the
\* outcome event has status success and its token counts are the usage the
\* vendor reported for the call.
C8_SuccessUsageReported ==
    RouterGave("return") =>
        /\ Len(gwReported) >= 1
        /\ LastReported.status = "success"
        /\ LastReported.usage = gwVendorUsage

\* C8 amended: when a routed call succeeds the outcome event has status
\* success; the usage passed with it is the usage of the vendor's response
\* in blocking mode and null in streaming mode.
C8_SuccessUsageBlockingOnly ==
    RouterGave("return") =>
        /\ Len(gwReported) >= 1
        /\ LastReported.status = "success"
        /\ LastReported.usage =
               IF IsStreaming(gwReq) THEN {} ELSE gwVendorUsage

C8_Witness ==
    /\ RouterGave("return")
    /\ ~IsStreaming(gwReq)
    /\ LastReported.usage = {Usage(5, 2)}

\* C9: a failure of the usage sink (the database write of logUsage) never
\* changes the result of the call: a successful call still returns its
\* response, a failed call still raises its original error.
C9_SinkFailureHarmless ==
    (gwSinkFailed /\ gwResult # {}) =>
        IF gwFailure = {}
        THEN Some(gwResult) = [kind |-> "return", response |-> gwResponse]
        ELSE Some(gwResult) = [kind |-> "throw", error |-> Some(gwFailure)]

C9_Witness ==
    /\ gwSinkFailed
    /\ gwUsageLog = <<>>
    /\ RouterGave("return")
    /\ gwResponse # {}
    /\ httpBody = gwResponse

\* C25: for every constrained parameter (temperature, top_p, max_tokens)
\* whose constraint has no remove = true, a value that is in the disallowed
\* set is replaced by the default when there is one and deleted otherwise.
C25_DisallowedReplaced ==
    (pcePc \in {"applied", "reapplied"} /\ pceConfig # {}) =>
        \A p \in Params :
            LET constraint == Some(pceConfig)[p]
            IN  (/\ constraint # {}
                 /\ ~Some(constraint).remove
                 /\ pceRequest[p] # {}
                 /\ Some(pceRequest[p]) \in Some(constraint).disallowed)
                => pceDerived[p] = Some(constraint).default

\* C33: after applyParameterConstraints every parameter that is present and
\* whose constraint defines min and / or max lies within [min, max], for
\* every input value and every default and disallowed set.
C33_WithinMinMax ==
    (pcePc \in {"applied", "reapplied"} /\ pceConfig # {}) =>
        \A p \in Params :
            LET constraint == Some(pceConfig)[p]
            IN  (constraint # {} /\ pceDerived[p] # {}) =>
                    /\ Some(constraint).min # {} =>
                           Some(pceDerived[p]) >= Some(Some(constraint).min)
                    /\ Some(constraint).max # {} =>
                           Some(pceDerived[p]) <= Some(Some(constraint).max)

\* C23: applyParameterConstraints never mutates its input: after the call
\* (and after a second call on the derived request) every field of the
\* object passed in has the value it had before, and the adjustment is in
\* the object returned.
C23_InputNotMutated ==
    /\ pcePc \in {"applied", "reapplied"} =>
           pceHeap["request"] = {pceRequest}
    /\ pcePc = "applied" => pceHeap[pceReturned] = {pceDerived}
    /\ pcePc = "reapplied" =>
           /\ pceHeap[pceReturned] = {pceAgain}
           /\ pceConfig # {} => pceHeap["updated1"] = {pceDerived}

C23_AdjustedCopy ==
    /\ pcePc = "applied"
    /\ pceDerived # pceRequest
    /\ pceReturned = "updated1"
    /\ pceHeap["request"] = {pceRequest}

\* a malformed request: messages missing, not an array or empty; a message
\* with a role outside system / user / assistant or a content that is not a
\* string; a temperature that is not a number or outside 0..2; max_tokens
\* below 1
Malformed(body) ==
    \/ body.messages.t # "array"
    \/ body.messages.t = "array" /\
          \/ Len(body.messages.arr) = 0
          \/ \E i \in 1..Len(body.messages.arr) :
                LET message == body.messages.arr[i]
                IN  \/ message.role.t # "string"
                    \/ message.role.t = "string" /\
                          message.role.str \notin {"system", "user", "assistant"}
                    \/ message.content.t # "string"
    \/ body.temperature.t \notin {"undefined", "number"}
    \/ body.temperature.t = "number" /\
          (body.temperature.num < 0 \/ body.temperature.num > 2)
    \/ body.max_tokens.t = "number" /\ body.max_tokens.num < 1

\* C24: a malformed request raises ValidationError (status 400) before any
\* dispatch: no vendor call is made, nothing is reported or streamed, and
\* the error is the only outcome.
C24_MalformedRejectedBeforeDispatch ==
    (gwPc # "idle" /\ Malformed(gwReq)) =>
        /\ gwPc = "done"
        /\ httpStatus = {400}
        /\ httpBody # {}
        /\ httpEnded
        /\ httpFrames = <<>>
        /\ gwModel = {}
        /\ gwVendorCalls = <<>>
        /\ gwReported = <<>>
        /\ gwResult = {}

C24_BadTemperatureRejected ==
    /\ gwPc = "done"
    /\ gwReq.messages.t = "array"
    /\ gwReq.temperature = Num(3)
    /\ httpStatus = {400}
    /\ httpBody =
           {ErrorBody(ValidationError(
                <<"temperature must be a number between 0 and 2">>))}

\* C34: the outcome event reported for a failed call names the model and the
\* vendor the router resolved for the call, also when the model was taken
\* from the default or the failure came from the provider.
C34_ErrorEventNamesResolved ==
    \A i \in 1..Len(gwReported) :
        (gwReported[i].status = "error" /\ gwModel # {} /\ gwProvider # {}) =>
            /\ gwReported[i].model = Some(gwModel)
            /\ gwReported[i].provider = Some(gwProvider)

\* C21: the gateway never retries: a routed call, blocking or streaming,
\* dispatches at most one vendor request, and a vendor failure ends the call
\* with the ProviderError of the adapter after that one request.
C21_NoRetry ==
    /\ Len(gwVendorCalls) <= 1
    /\ (gwVendorCalls # <<>> /\ gwFailure # {}) =>
           /\ Some(gwFailure).name = "ProviderError"
           /\ gwCaught = gwFailure
           /\ gwResponse = {}
           /\ gwPc \in {"logError", "raised", "done"}

C21_FailedOnce ==
    /\ gwPc = "raised"
    /\ gwFailure # {}
    /\ Len(gwVendorCalls) = 1

\* C22: when request.model is omitted, the router resolves the same fixed
\* default model id for every caller and every call, whatever is stored for
\* the caller.
C22_FixedDefaultModel ==
    (Falsy(gwReq.model) /\ gwModel # {}) => gwModel = {DefaultModel}

\* C19: when the consumer aborts a stream before it is drained,
\* routeLLMStreamRequest still reports exactly one outcome event for the
\* call.
C19_AbortStillReports == gwPc = "aborted" => Len(gwReported) = 1

\* ------------------------------------------------------------------------
\* Properties of the responses stream (SpecResponses)
\* ------------------------------------------------------------------------

\* C10: only text-delta events produce content chunks; every reasoning /
\* thinking event and every event of an unrecognized type produces no chunk
\* at all.
C10_OnlyTextDeltasYield ==
    \A i \in 1..Len(rsOut) :
        LET e == rsOut[i]
        IN  /\ e.chunk.content # {} => e.src.type \in TextDeltaTypes
            /\ e.src.type \notin ReasoningTypes
            /\ EventBranch(e.src) # "skip"

\* the event has one of the done shapes the transformer recognizes
IsDoneShape(chunk) == EventBranch(chunk) = "done"

\* the usage object of the response of an event, {} when it has none
VendorUsageOf(chunk) ==
    IF chunk.response = {} THEN {} ELSE Some(chunk.response).usage

\* C11: each done shape (type response.done, type response.completed, event
\* done) is the terminal signal: the stream has exactly one chunk with
\* finishReason "stop", and that chunk carries the usage of the vendor, input
\* and output tokens translated and totalTokens their sum (5 + 2 = 7).
C11_DoneChunkCarriesUsage ==
    \A i \in 1..Len(rsOut) :
        LET e == rsOut[i]
            u == VendorUsageOf(e.src)
        IN  IsDoneShape(e.src) =>
                /\ e.chunk.finish_reason = {"stop"}
                /\ \A j \in 1..Len(rsOut) :
                       rsOut[j].chunk.finish_reason # {} => j = i
                /\ u # {} =>
                       e.chunk.usage =
                           {[prompt_tokens |-> NumberOrZero(Some(u).input_tokens),
                             completion_tokens |-> NumberOrZero(Some(u).output_tokens),
                             total_tokens |-> NumberOrZero(Some(u).input_tokens)
                                              + NumberOrZero(Some(u).output_tokens)]}

\* C13: all chunks of one stream carry the same id and the same created
\* timestamp, also when the vendor events carry no id of their own.
C13_SameIdCreated ==
    \A i, j \in 1..Len(rsOut) :
        /\ rsOut[i].chunk.id = rsOut[j].chunk.id
        /\ rsOut[i].chunk.created = rsOut[j].chunk.created

\* ------------------------------------------------------------------------
\* Properties of the adapter streams (SpecStreams)
\* ------------------------------------------------------------------------

\* the positions of the chunks of the stream that have a finishReason
StFinishPositions == {i \in 1..Len(stOut) : stOut[i].finish_reason # {}}

\* the largest position of a non-empty set of positions
LastOf(S) == CHOOSE i \in S : \A j \in S : j <= i

\* C12: in a stream that ended normally, exactly one chunk has usage
\* defined, and it is the last chunk whose finishReason is not null.
C12_OneUsageChunk ==
    (stPc = "done" /\ StFinishPositions # {}) =>
        \A i \in 1..Len(stOut) :
            (stOut[i].usage # {}) <=> (i = LastOf(StFinishPositions))

\* C14: finishReason is null on every chunk except the terminal one: at
\* most one chunk of a stream has a finishReason, and no content chunk
\* follows it.
C14_FinishOnlyTerminal ==
    /\ Cardinality(StFinishPositions) <= 1
    /\ \A i \in StFinishPositions :
           \A j \in 1..Len(stOut) : j > i => stOut[j].content = {}

\* the finish reasons of the unified contract (null is {})
FinishReasonVocabulary == {"stop", "length", "content_filter"}

\* C15: every finishReason that leaves the gateway is stop, length,
\* content_filter or null, whatever value the vendor sent (tool_calls, an
\* unknown string).
C15_FinishReasonVocabulary ==
    \A i \in 1..Len(stOut) : stOut[i].finish_reason \subseteq FinishReasonVocabulary

\* delta.content of all chunks of the stream, concatenated in order
StreamText ==
    Join([i \in 1..Len(stOut) |->
            IF stOut[i].content = {} THEN <<>> ELSE Some(stOut[i].content)])

\* the parts of the candidate of the blocking response that carries the same
\* vendor output: the parts of every streamed item, in order
RECURSIVE GeminiBlockingParts(_)
GeminiBlockingParts(items) ==
    IF items = <<>> THEN <<>>
    ELSE (IF Head(items).candidates = {} THEN <<>>
          ELSE Some(Head(items).candidates).parts)
         \o GeminiBlockingParts(Tail(items))

\* C16: for the same vendor output, the delta.content of all chunks of the
\* stream, concatenated in order, is the message content of the blocking
\* call, also when a generate-content item carries several text parts.
C16_StreamTextIsResponseText ==
    stAdapter = "gemini" =>
        StreamText = GeminiResponseContent(GeminiBlockingParts(stIn))

\* C18: when the consumer stops after a chunk and returns the generator, the
\* adapter yields no further chunk and releases (closes or cancels) the
\* vendor stream: it does not stay open after the abort.
C18_AbortReleasesVendorStream == stPc = "aborted" => ~stVendorOpen

HasContent(chunk) == chunk.content # {}

NonEmptyText(text) == text # <<>>

HasFinishReason(item) ==
    /\ item.candidates # {}
    /\ Some(item.candidates).finishReason \notin {{}, {"FINISH_REASON_UNSPECIFIED"}}

IsTerminalChunk(chunk) == chunk.content = {}

\* C29: in the generate-content stream every item yields one content chunk
\* per non-empty text part, in part order, and then one terminal chunk when
\* its finish reason is set and is not unspecified, with the finish reason
\* mapped (STOP to stop, MAX_TOKENS to length, SAFETY to content_filter,
\* anything else to null).
C29_ChunkPerTextPart ==
    stAdapter = "gemini" =>
        LET contents == SelectSeq(stOut, HasContent)
            texts == SelectSeq(GeminiBlockingParts(stIn), NonEmptyText)
            terminals == SelectSeq(stOut, IsTerminalChunk)
            finished == SelectSeq(stIn, HasFinishReason)
        IN  /\ Len(contents) = Len(texts)
            /\ \A i \in 1..Len(texts) : contents[i].content = {texts[i]}
            /\ Len(terminals) = Len(finished)
            /\ \A i \in 1..Len(finished) :
                  terminals[i].finish_reason =
                      mapGeminiFinishReason(
                          Some(Some(finished[i].candidates).finishReason))

\* C28: in the message-style stream the finishReason of the terminal chunk
\* is the mapping of the stop reason the vendor gave (end_turn to stop,
\* max_tokens to length, stop_sequence to stop), the mapping of the
\* non-streaming translation.
C28_TerminalFinishReasonMapped ==
    (/\ stAdapter = "anthropic"
     /\ Len(stIn) >= 2
     /\ stIn[Len(stIn)].type = "message_stop"
     /\ stIn[Len(stIn) - 1].type = "message_delta") =>
        stOut[Len(stOut)].finish_reason =
            mapAnthropicStopReason(Some(stIn[Len(stIn) - 1].stop_reason))

\* ------------------------------------------------------------------------
\* Properties of the unified LLM service (SpecDispatch)
\* ------------------------------------------------------------------------

\* the constraint of the model on temperature has remove = true
RemovesTemperature(model) ==
    LET config == getModelConfig(MODEL_CONFIGS, model)
    IN  /\ config # {}
        /\ Some(config)["temperature"] # {}
        /\ Some(Some(config)["temperature"]).remove

\* C17: no vendor call dispatched by the router for a model whose
\* temperature constraint has remove = true (o3, o4-mini) contains a
\* temperature, blocking or streaming, whatever the caller sent.
C17_NoTemperatureForReasoningModels ==
    \A i \in 1..Len(dpCalls) :
        RemovesTemperature(dpCalls[i].model) => dpCalls[i].temperature = {}

\* ------------------------------------------------------------------------
\* Properties of the failures of the OpenAI adapter (SpecErrors)
\* ------------------------------------------------------------------------

\* C20: every vendor failure surfaces to the caller of makeOpenAIRequest as
\* a ProviderError whose details carry the HTTP status code of the vendor
\* (when the vendor answered) and whose message is the message of the
\* vendor unchanged (when the vendor gave one), also when the error passed
\* through the catch of makeOpenAIResponsesRequest first.
C20_VendorStatusAndMessageSurface ==
    erPc = "raised" =>
        LET error == Some(erError)
        IN  /\ error.name = "ProviderError"
            /\ erFailure.kind = "http" =>
                   Some(error.details).statusCode = {erFailure.status}
            /\ VendorMessage(erFailure) # <<>> =>
                   error.message = VendorMessage(erFailure)

\* ------------------------------------------------------------------------
\* Properties of the reads of the relay adapter (SpecRelayReads)
\* ------------------------------------------------------------------------

\* C26: the chunks the relay adapter emits do not depend on the read
\* boundaries: however the body is split into reads, the chunks are those of
\* the whole body arriving in one read, and there is one chunk for every
\* data payload with choices, also for a final data line without a trailing
\* newline.
C26_ReadBoundariesIrrelevant ==
    rdPc = "done" =>
        /\ LET whole == SplitNewline(rdBody)
           IN  rdOut = RelayLineLoop(SubSeq(whole, 1, Len(whole) - 1))
        /\ rdOut = RelayLineLoop(SplitNewline(rdBody))

\* the lines of the body that end with a newline
CompleteLines ==
    LET whole == SplitNewline(rdBody) IN SubSeq(whole, 1, Len(whole) - 1)

IsValidDataLine(line) == ParseSseLine(line).kind = "json"

C30_InputListAndMediumEffort ==
    trPc = "translated" =>
        LET out == Some(trOut)
        IN  /\ Len(out.input) = Len(trRequest.messages)
            /\ \A i \in 1..Len(out.input) :
                  /\ out.input[i].content = trRequest.messages[i].content
                  /\ out.input[i].role =
                        IF trRequest.messages[i].role = "system" THEN "user"
                        ELSE trRequest.messages[i].role
            /\ out.reasoning.effort = {"medium"}

\* the texts of the system messages of the request, in order
SystemTexts ==
    LET systemMessages == SelectSeq(trRequest.messages, IsSystem)
    IN  [i \in 1..Len(systemMessages) |-> TextOf(systemMessages[i].content)]

\* C31: in the message-style and generate-content request translations all
\* system messages are concatenated in their original order, joined with
\* newlines, into the one system field (which is left out when that text is
\* empty), and the other messages keep their relative order and content,
\* assistant being renamed to model in generate-content.
C31_SystemJoinedOthersInOrder ==
    trPc \in {"anthropic", "gemini"} =>
        LET out == Some(trOut)
            others == SelectSeq(trRequest.messages, NotSystem)
            joined == JoinNewline(SystemTexts)
        IN  /\ out.system = IF joined = <<>> THEN {} ELSE {joined}
            /\ Len(out.messages) = Len(others)
            /\ \A i \in 1..Len(others) :
                  /\ out.messages[i].text = others[i].content
                  /\ out.messages[i].role =
                        IF trPc = "gemini" /\ others[i].role = "assistant"
                        THEN "model" ELSE others[i].role

C31_TwoSystemMessages ==
    /\ trPc = "gemini"
    /\ Len(SystemTexts) = 2
    /\ SystemTexts[1] # SystemTexts[2]
    /\ Some(trOut).system = {SystemTexts[1] \o <<"\n">> \o SystemTexts[2]}

HasText(item) == item.text # {}

\* C32: the non-streaming reasoning translation returns as message content
\* the text of the first text-bearing entry of the output list of the
\* vendor, also when the first entries are reasoning entries or message
\* entries without text.
C32_FirstTextBearingEntry ==
    trPc = "returned" =>
        LET bearing == SelectSeq(trResponse, HasText)
        IN  trContent = {IF bearing = <<>> THEN Str("")
                         ELSE Str(Some(bearing[1].text))}

\* ------------------------------------------------------------------------
\* The rate limiter (routes/proxy.ts, rateLimiter): concurrent requests of
\* one identifier against one counter key.  Redis answers every command;
\* each command is one step, the code between two awaits is part of the
\* step that follows the first.
\* ------------------------------------------------------------------------

\* the requests of the identifier that are in flight together
MaxClients == 3

\* the largest maxRequests option
MaxLimit == 2

Clients == 1..MaxClients

\* rateLimiter(options): the options, a counter key that does not exist yet
RlInit ==
    /\ PceOff /\ GwOff("off") /\ RsOff("off") /\ StOff /\ DpOff /\ ErOff
    /\ RdQuiet /\ TrQuiet /\ AxOff /\ ToOff
    /\ rlMax \in 1..MaxLimit
    /\ rlSkipSuccessful \in BOOLEAN
    /\ rlSkipFailed \in BOOLEAN
    /\ rlStore = {}
    /\ rlPc = [r \in Clients |-> "idle"]
    /\ rlCount = [r \in Clients |-> 0]
    /\ rlNewCount = [r \in Clients |-> 0]
    /\ rlAdmitted = 0

\* redis.get(key) and `current || 0`, then the comparison with maxRequests
RlGet(r) ==
    /\ rlPc[r] = "idle"
    /\ LET count == IF rlStore = {} THEN 0 ELSE Some(rlStore).value
       IN  /\ rlCount' = [rlCount EXCEPT ![r] = count]
           /\ rlPc' = [rlPc EXCEPT
                  ![r] = IF count >= rlMax THEN "limited" ELSE "incr"]
    /\ UNCHANGED <<rlMax, rlSkipSuccessful, rlSkipFailed, rlStore,
                   rlNewCount, rlAdmitted, notRl>>

\* redis.ttl(key) and the 429 response
RlLimit(r) ==
    /\ rlPc[r] = "limited"
    /\ rlPc' = [rlPc EXCEPT ![r] = "rejected"]
    /\ UNCHANGED <<rlMax, rlSkipSuccessful, rlSkipFailed, rlStore, rlCount,
                   rlNewCount, rlAdmitted, notRl>>

\* redis.incr(key): a key that does not exist is created at 1 without an
\* expiry; the request is let through from here on
RlIncr(r) ==
    /\ rlPc[r] = "incr"
    /\ LET newCount == IF rlStore = {} THEN 1 ELSE Some(rlStore).value + 1
           expiry == IF rlStore = {} THEN FALSE ELSE Some(rlStore).expiry
       IN  /\ rlStore' = {[value |-> newCount, expiry |-> expiry]}
           /\ rlNewCount' = [rlNewCount EXCEPT ![r] = newCount]
           /\ rlPc' = [rlPc EXCEPT
                  ![r] = IF newCount = 1 THEN "expire" ELSE "admitted"]
    /\ rlAdmitted' = rlAdmitted + 1
    /\ UNCHANGED <<rlMax, rlSkipSuccessful, rlSkipFailed, rlCount, notRl>>

\* redis.expire(key, window) of the request that saw newCount === 1; a key
\* that no longer exists gets none
RlExpire(r) ==
    /\ rlPc[r] = "expire"
    /\ rlStore' = {[k EXCEPT !.expiry = TRUE] : k \in rlStore}
    /\ rlPc' = [rlPc EXCEPT ![r] = "admitted"]
    /\ UNCHANGED <<rlMax, rlSkipSuccessful, rlSkipFailed, rlCount,
                   rlNewCount, rlAdmitted, notRl>>

\* the wrapped res.send of a request that was let through: the handler
\* answers below 400 (ok) or from 400 up, and shouldSkip decides on the
\* decrement
RlSend(r, ok) ==
    /\ rlPc[r] = "admitted"
    /\ LET wrapped == ~rlSkipSuccessful \/ ~rlSkipFailed
           shouldSkip ==
               (rlSkipSuccessful /\ ok) \/ (rlSkipFailed /\ ~ok)
       IN  rlPc' = [rlPc EXCEPT
               ![r] = IF wrapped /\ shouldSkip THEN "decr" ELSE "done"]
    /\ UNCHANGED <<rlMax, rlSkipSuccessful, rlSkipFailed, rlStore, rlCount,
                   rlNewCount, rlAdmitted, notRl>>

\* redis.decr(key): a key that does not exist is created at -1 without an
\* expiry
RlDecr(r) ==
    /\ rlPc[r] = "decr"
    /\ rlStore' =
           IF rlStore = {}
           THEN {[value |-> -1, expiry |-> FALSE]}
           ELSE {[k EXCEPT !.value = k.value - 1] : k \in rlStore}
    /\ rlPc' = [rlPc EXCEPT ![r] = "done"]
    /\ UNCHANGED <<rlMax, rlSkipSuccessful, rlSkipFailed, rlCount,
                   rlNewCount, rlAdmitted, notRl>>

\* the window of the counter key ends: Redis removes the key
RlKeyExpires ==
    /\ rlStore # {}
    /\ Some(rlStore).expiry
    /\ rlStore' = {}
    /\ rlAdmitted' = 0
    /\ UNCHANGED <<rlMax, rlSkipSuccessful, rlSkipFailed, rlPc, rlCount,
                   rlNewCount, notRl>>

RlNext ==
    \/ \E r \in Clients : RlGet(r)
    \/ \E r \in Clients : RlLimit(r)
    \/ \E r \in Clients : RlIncr(r)
    \/ \E r \in Clients : RlExpire(r)
    \/ \E r \in Clients, ok \in BOOLEAN : RlSend(r, ok)
    \/ \E r \in Clients : RlDecr(r)
    \/ RlKeyExpires

SpecRateLimiter == RlInit /\ [][RlNext]_vars


\* C35: the rate limiter lets at most maxRequests requests of one
\* identifier through within one window, under every interleaving of
\* concurrent requests (no request is taken back: both skip options off).
C35_AtMostMaxRequestsPerWindow ==
    (~rlSkipSuccessful /\ ~rlSkipFailed) => rlAdmitted <= rlMax

\* C36: the counter of an identifier is never negative, and every counter
\* key that exists has an expiry once the request that created it has run
\* its expire step.
C36_CounterNonNegativeWithExpiry ==
    \A k \in rlStore :
        /\ k.value >= 0
        /\ (\A r \in DOMAIN rlPc : rlPc[r] # "expire") => k.expiry

\* ------------------------------------------------------------------------
\* exchangeCodeForTokens: concurrent calls with one authorization code.
\* Each Redis or Supabase command is one step and may fail (ok = FALSE).
\* ------------------------------------------------------------------------

\* the exchangeCodeForTokens calls made with the code
MaxExchanges == 3

Exchanges == 1..MaxExchanges

\* the code and the user's session tokens were stored at authorization
AxInit ==
    /\ PceOff /\ GwOff("off") /\ RsOff("off") /\ StOff /\ DpOff /\ ErOff
    /\ RdQuiet /\ TrQuiet /\ RlOff /\ ToOff
    /\ axCode = TRUE
    /\ axSession = TRUE
    /\ axPc = [c \in Exchanges |-> "start"]

\* redis.get(codeKey): a failed command or a missing code throws
AxGetCode(c, ok) ==
    /\ axPc[c] = "start"
    /\ axPc' = [axPc EXCEPT
           ![c] = IF ok /\ axCode THEN "delCode" ELSE "failed"]
    /\ UNCHANGED <<axCode, axSession, notAx>>

\* redis.del(codeKey): a failed command is logged and the call goes on
AxDelCode(c, ok) ==
    /\ axPc[c] = "delCode"
    /\ axCode' = IF ok THEN FALSE ELSE axCode
    /\ axPc' = [axPc EXCEPT ![c] = "getSession"]
    /\ UNCHANGED <<axSession, notAx>>

\* redis.get(sessionKey): a failed command or a missing session throws
AxGetSession(c, ok) ==
    /\ axPc[c] = "getSession"
    /\ axPc' = [axPc EXCEPT
           ![c] = IF ok /\ axSession THEN "delSession" ELSE "failed"]
    /\ UNCHANGED <<axCode, axSession, notAx>>

\* redis.del(sessionKey): a failed command is logged and the call goes on;
\* the stored tokens then parse
AxDelSession(c, ok) ==
    /\ axPc[c] = "delSession"
    /\ axSession' = IF ok THEN FALSE ELSE axSession
    /\ axPc' = [axPc EXCEPT ![c] = "getUser"]
    /\ UNCHANGED <<axCode, notAx>>

\* supabase.auth.admin.getUserById, then the tokens are returned
AxGetUser(c, ok) ==
    /\ axPc[c] = "getUser"
    /\ axPc' = [axPc EXCEPT ![c] = IF ok THEN "succeeded" ELSE "failed"]
    /\ UNCHANGED <<axCode, axSession, notAx>>

AxNext ==
    \/ \E c \in Exchanges, ok \in BOOLEAN : AxGetCode(c, ok)
    \/ \E c \in Exchanges, ok \in BOOLEAN : AxDelCode(c, ok)
    \/ \E c \in Exchanges, ok \in BOOLEAN : AxGetSession(c, ok)
    \/ \E c \in Exchanges, ok \in BOOLEAN : AxDelSession(c, ok)
    \/ \E c \in Exchanges, ok \in BOOLEAN : AxGetUser(c, ok)

SpecExchange == AxInit /\ [][AxNext]_vars


\* C37: an authorization code is one-time use: of all the
\* exchangeCodeForTokens calls made with one code, at most one succeeds.
C37_AtMostOneExchangeSucceeds ==
    Cardinality({c \in DOMAIN axPc : axPc[c] = "succeeded"}) <= 1

\* ------------------------------------------------------------------------
\* requestTimeout, asyncHandler and errorHandler (middleware/error.ts): one
\* request whose non-streaming handler races the 30-second timer.  A
\* response is its status and whether its body carries a stack trace.
\* ------------------------------------------------------------------------

\* what a handler can throw: the AppError classes, a ZodError, a plain
\* Error, a value that is no Error
ThrownErrors ==
    {"AuthenticationError", "AuthorizationError", "ValidationError",
     "RateLimitError", "NotFoundError", "ProviderError", "ZodError",
     "Error", "other"}

\* appError.statusCode of normalizeError(error)
normalizeError(error) ==
    CASE error = "AuthenticationError" -> 401
      [] error = "AuthorizationError" -> 403
      [] error = "ValidationError" -> 400
      [] error = "RateLimitError" -> 429
      [] error = "NotFoundError" -> 404
      [] error = "ProviderError" -> 502
      [] error = "ZodError" -> 400
      [] OTHER -> 500

\* res.status(status).json(body): the call is made; Node sends the
\* response when no headers were sent yet and emits 'finish', and throws
\* ERR_HTTP_HEADERS_SENT without sending anything otherwise
ResJson(status, stack) ==
    /\ toWrites' = Append(toWrites, [status |-> status, stack |-> stack])
    /\ toSent' =
           IF toHeadersSent
           THEN toSent
           ELSE Append(toSent, [status |-> status, stack |-> stack])
    /\ toFinishPending' = (toFinishPending \/ ~toHeadersSent)
    /\ toHeadersSent' = TRUE

\* requestTimeout(30000) armed the timer and called next(); the handler runs
ToInit ==
    /\ PceOff /\ GwOff("off") /\ RsOff("off") /\ StOff /\ DpOff /\ ErOff
    /\ RdQuiet /\ TrQuiet /\ RlOff /\ AxOff
    /\ toEnv \in {"development", "production"}
    /\ toTimer = "armed"
    /\ toPc = "running"
    /\ toError = {}
    /\ toHeadersSent = FALSE
    /\ toFinishPending = FALSE
    /\ toWrites = <<>>
    /\ toSent = <<>>

\* the setTimeout callback: the 408 response unless headers were sent
ToTimeout ==
    /\ toTimer = "armed"
    /\ toTimer' = "fired"
    /\ IF ~toHeadersSent
       THEN ResJson(408, FALSE)
       ELSE UNCHANGED <<toHeadersSent, toFinishPending, toWrites, toSent>>
    /\ UNCHANGED <<toPc, toError, toEnv, notTo>>

\* res.on('finish'): clearTimeout(timeout)
ToFinish ==
    /\ toFinishPending
    /\ toFinishPending' = FALSE
    /\ toTimer' = IF toTimer = "armed" THEN "cleared" ELSE toTimer
    /\ UNCHANGED <<toPc, toError, toHeadersSent, toWrites, toSent, toEnv, notTo>>

\* the handler has its result: res.json(response); what res.json throws
\* rejects the handler's promise and asyncHandler passes it to next
ToHandlerReturns ==
    /\ toPc = "running"
    /\ ResJson(200, FALSE)
    /\ toPc' = IF toHeadersSent THEN "error" ELSE "done"
    /\ toError' = IF toHeadersSent THEN {"Error"} ELSE toError
    /\ UNCHANGED <<toTimer, toEnv, notTo>>

\* the handler throws: asyncHandler's catch(next)
ToHandlerThrows(error) ==
    /\ toPc = "running"
    /\ toPc' = "error"
    /\ toError' = {error}
    /\ UNCHANGED <<toTimer, toHeadersSent, toFinishPending, toWrites,
                   toSent, toEnv, notTo>>

\* errorHandler: res.status(appError.statusCode).json(response), with the
\* stack trace in development
ToErrorHandler ==
    /\ toPc = "error"
    /\ ResJson(normalizeError(Some(toError)), toEnv = "development")
    /\ toPc' = "done"
    /\ UNCHANGED <<toTimer, toError, toEnv, notTo>>

ToNext ==
    \/ ToTimeout
    \/ ToFinish
    \/ ToHandlerReturns
    \/ \E error \in ThrownErrors : ToHandlerThrows(error)
    \/ ToErrorHandler

SpecTimeout == ToInit /\ [][ToNext]_vars


====
